---- MODULE Spec2Model ----
(***************************************************************************)
(* AILANG: the command parser (parser.py), the forward transpiler          *)
(* (transpiler.py) and the output contracts (contracts.py).  Text is a     *)
(* sequence of one-character strings, so that                              *)
(* scanning, regular-expression matching and substitution are computed     *)
(* character by character as the Python code computes them.                *)
(***************************************************************************)
EXTENDS Naturals, Integers, Sequences, FiniteSets, TLC

VARIABLES
    toks,      \* the pieces of text the caller typed, in order
    cmd,       \* the command string (the concatenation of toks)
    pc,        \* "input", then the name of the last operation applied
    parts,     \* the list _split_chain returned
    ast,       \* what parse / _parse_single returned (an AST node or ParseError)
    warnings,  \* the list validate returned
    bindings,  \* the keyword arguments of transpile, in the order supplied
    prompt,    \* the string _transpile_ast returned, the prompt ask_async built
    contract,  \* the schema of the OutputContract: its fields in insertion order
    reply,     \* the response text handed to parse_response
    plain,     \* the JSON text before it was wrapped in a fenced block, if it was
    field_type, \* the TypeConstraint a value is validated or parsed against
    given,     \* the value handed to validate / parse, the name handed to an access
    outcome,   \* what the contract operation returned or raised
    question,  \* the question handed to ask_async
    voice,     \* the voice handed to ask_async, if any
    returns,   \* the returns argument of ask_async / chain_async, if any
    commands,  \* the commands handed to chain_async
    index,     \* the position of chain_async's loop
    current_vars, \* chain_async's copy of the caller's variables
    last_result,  \* chain_async's result: the response before this one
    calls,     \* the provider's calls so far: the prompt and the response of each
    heap,      \* the dicts and lists that exist, by address
    held,      \* the addresses of the dicts the caller holds
    contract_result \* the ContractResult constructed, if any

vars == <<toks, cmd, pc, parts, ast, warnings, bindings, prompt,
          contract, reply, plain, field_type, given, outcome,
          question, voice, returns, commands, index, current_vars, last_result, calls,
          heap, held, contract_result>>

contractVars == <<contract, reply, plain, field_type, given, outcome>>
commandVars == <<toks, cmd, parts, ast, warnings, bindings, prompt>>
callVars == <<question, voice, returns, commands, index, current_vars, last_result, calls>>
objectVars == <<heap, held, contract_result>>

\* no contract is in use
ContractIdle ==
    /\ contract = <<>>
    /\ reply = <<>>
    /\ plain = <<>>
    /\ field_type = <<>>
    /\ given = <<>>
    /\ outcome = <<>>

\* no call of the provider is under way, and no object exists
CoreIdle ==
    /\ question = <<>>
    /\ voice = <<>>
    /\ returns = <<>>
    /\ commands = <<>>
    /\ index = 0
    /\ current_vars = <<>>
    /\ last_result = <<>>
    /\ calls = <<>>
    /\ heap = <<>>
    /\ held = <<>>
    /\ contract_result = <<>>

(***************************************************************************)
(* Bounds of the model.                                                    *)
(***************************************************************************)
MaxSplitLen == 5
MaxChainToks == 5
MaxActionLen == 4
MaxModifierToks == 4
MaxSubjectLen == 5
MaxParallelLen == 6
MaxRenderToks == 3
MaxPromptToks == 4
MaxStrMax == 4
MaxBound == 2
MaxTextLen == 5
MaxItems == 3
MaxMembers == 3

(***************************************************************************)
(* Characters.                                                             *)
(***************************************************************************)
Lower == <<"a","b","c","d","e","f","g","h","i","j","k","l","m",
           "n","o","p","q","r","s","t","u","v","w","x","y","z">>
Upper == <<"A","B","C","D","E","F","G","H","I","J","K","L","M",
           "N","O","P","Q","R","S","T","U","V","W","X","Y","Z">>
Digits == {"0","1","2","3","4","5","6","7","8","9"}

Range(f) == {f[i] : i \in DOMAIN f}

\* \w of the re module
IsWord(c) == c \in Range(Lower) \cup Range(Upper) \cup Digits \cup {"_"}

\* \s of the re module, the characters str.strip() removes
IsSpace(c) == c \in {" ", "\t", "\n"}

QUOTE == "\""
BACKSLASH == "\\"

(***************************************************************************)
(* str operations.                                                         *)
(***************************************************************************)
\* s[i:] of Python with a 1-based first index
Drop(s, n) == IF n >= Len(s) THEN <<>> ELSE SubSeq(s, n + 1, Len(s))

\* s[:n]
Take(s, n) == IF n >= Len(s) THEN s ELSE SubSeq(s, 1, n)

RECURSIVE lstrip(_)
lstrip(s) == IF s # <<>> /\ IsSpace(Head(s)) THEN lstrip(Tail(s)) ELSE s

RECURSIVE rstrip(_)
rstrip(s) ==
    IF s # <<>> /\ IsSpace(s[Len(s)]) THEN rstrip(SubSeq(s, 1, Len(s) - 1)) ELSE s

\* str.strip()
strip(s) == rstrip(lstrip(s))

\* sep.join(list)
RECURSIVE join(_, _)
join(sep, list) ==
    IF list = <<>> THEN <<>>
    ELSE IF Len(list) = 1 THEN list[1]
    ELSE list[1] \o sep \o join(sep, Tail(list))

\* the concatenation of a list of strings
Flatten(list) == join(<<>>, list)

\* s.startswith(p) at offset i (1-based)
StartsAt(s, i, p) ==
    /\ i + Len(p) - 1 <= Len(s)
    /\ \A k \in 1..Len(p) : s[i + k - 1] = p[k]

\* the mutant: \w where the pattern has \w+
WordRunOne(s, i) == IF i <= Len(s) /\ IsWord(s[i]) THEN 1 ELSE 0

\* the length of the longest run of characters satisfying \w from position i
RECURSIVE WordRun(_, _)
WordRun(s, i) ==
    IF i <= Len(s) /\ IsWord(s[i]) THEN 1 + WordRun(s, i + 1) ELSE 0

\* the length of the longest run of \s from position i
RECURSIVE SpaceRun(_, _)
SpaceRun(s, i) ==
    IF i <= Len(s) /\ IsSpace(s[i]) THEN 1 + SpaceRun(s, i + 1) ELSE 0

(***************************************************************************)
(* _split_chain: the scanner of parser.py, one character per step.         *)
(***************************************************************************)
OPENERS == {"[", "{", "("}
CLOSERS == {"]", "}", ")"}

ScanInit == [parts |-> <<>>, current |-> <<>>, depth |-> 0, in_quotes |-> FALSE]

\* the mutant: a quote toggles the flag even when a backslash precedes it
ScanStepNoEscape(st, command, i) ==
    LET char == command[i] IN
    IF char = QUOTE
    THEN [st EXCEPT !.in_quotes = ~st.in_quotes, !.current = Append(@, char)]
    ELSE IF char \in OPENERS /\ ~st.in_quotes
    THEN [st EXCEPT !.depth = @ + 1, !.current = Append(@, char)]
    ELSE IF char \in CLOSERS /\ ~st.in_quotes
    THEN [st EXCEPT !.depth = @ - 1, !.current = Append(@, char)]
    ELSE IF char = ">" /\ st.depth = 0 /\ ~st.in_quotes
    THEN [st EXCEPT !.parts = Append(@, strip(st.current)), !.current = <<>>]
    ELSE [st EXCEPT !.current = Append(@, char)]

\* the body of the while loop, for the character at index i
ScanStep(st, command, i) ==
    LET char == command[i] IN
    IF char = QUOTE /\ (i = 1 \/ command[i - 1] # BACKSLASH)
    THEN [st EXCEPT !.in_quotes = ~st.in_quotes, !.current = Append(@, char)]
    ELSE IF char \in OPENERS /\ ~st.in_quotes
    THEN [st EXCEPT !.depth = @ + 1, !.current = Append(@, char)]
    ELSE IF char \in CLOSERS /\ ~st.in_quotes
    THEN [st EXCEPT !.depth = @ - 1, !.current = Append(@, char)]
    ELSE IF char = ">" /\ st.depth = 0 /\ ~st.in_quotes
    THEN [st EXCEPT !.parts = Append(@, strip(st.current)), !.current = <<>>]
    ELSE [st EXCEPT !.current = Append(@, char)]

\* the while loop from index i on; each iteration's state is computed before the next
RECURSIVE Scan(_, _, _)
Scan(st, command, i) ==
    IF i > Len(command) THEN st
    ELSE LET next == ScanStep(st, command, i) IN
         IF next.depth = next.depth THEN Scan(next, command, i + 1) ELSE st

_split_chain(command) ==
    LET st == Scan(ScanInit, command, 1) IN
    IF strip(st.current) # <<>> THEN Append(st.parts, strip(st.current)) ELSE st.parts

(***************************************************************************)
(* Regular expressions of parser.py, as the matcher evaluates them.        *)
(***************************************************************************)
\* the index of the first c in s at or after i, 0 when there is none
RECURSIVE IndexFrom(_, _, _)
IndexFrom(s, c, i) ==
    IF i > Len(s) THEN 0 ELSE IF s[i] = c THEN i ELSE IndexFrom(s, c, i + 1)

\* the index of the last c in s at or after i, 0 when there is none
LastIndexFrom(s, c, i) ==
    LET hits == {k \in i..Len(s) : s[k] = c} IN
    IF hits = {} THEN 0 ELSE CHOOSE k \in hits : \A h \in hits : h <= k

\* re.findall(prefix + r"(\w+)", s): the scan resumes after each match
RECURSIVE FindAllPrefixed(_, _, _)
FindAllPrefixed(s, prefix, i) ==
    IF i > Len(s) THEN <<>>
    ELSE IF s[i] = prefix /\ WordRun(s, i + 1) > 0
    THEN <<SubSeq(s, i + 1, i + WordRun(s, i + 1))>>
             \o FindAllPrefixed(s, prefix, i + 1 + WordRun(s, i + 1))
    ELSE FindAllPrefixed(s, prefix, i + 1)

\* re.findall(r"\[([^\]]+)\]", s)
RECURSIVE FindAllSpecifiers(_, _)
FindAllSpecifiers(s, i) ==
    IF i > Len(s) THEN <<>>
    ELSE LET close == IndexFrom(s, "]", i + 1) IN
         IF s[i] = "[" /\ close > i + 1
         THEN <<SubSeq(s, i + 1, close - 1)>> \o FindAllSpecifiers(s, close + 1)
         ELSE FindAllSpecifiers(s, i + 1)

\* re.findall(r"\{(\w+)\}", s)
RECURSIVE FindAllVars(_, _)
FindAllVars(s, i) ==
    IF i > Len(s) THEN <<>>
    ELSE LET w == WordRun(s, i + 1) IN
         IF s[i] = "{" /\ w > 0 /\ i + 1 + w <= Len(s) /\ s[i + 1 + w] = "}"
         THEN <<SubSeq(s, i + 1, i + w)>> \o FindAllVars(s, i + w + 2)
         ELSE FindAllVars(s, i + 1)

\* the end of the longest match of (?:\s*&\s*\w+)* that starts after index e
RECURSIVE ParallelTail(_, _)
ParallelTail(s, e) ==
    LET amp  == e + 1 + SpaceRun(s, e + 1)
        word == amp + 1 + SpaceRun(s, amp + 1)
    IN  IF amp <= Len(s) /\ s[amp] = "&" /\ WordRun(s, word) > 0
        THEN ParallelTail(s, word + WordRun(s, word) - 1)
        ELSE e

\* re.search(r"&\s*(\w+(?:\s*&\s*\w+)*)", s).group(0), <<>> when there is no match
RECURSIVE ParallelSearch(_, _)
ParallelSearch(s, i) ==
    IF i > Len(s) THEN <<>>
    ELSE LET word == i + 1 + SpaceRun(s, i + 1) IN
         IF s[i] = "&" /\ WordRun(s, word) > 0
         THEN SubSeq(s, i, ParallelTail(s, word + WordRun(s, word) - 1))
         ELSE ParallelSearch(s, i + 1)

\* str.split(sep) for a one-character separator
RECURSIVE split(_, _)
split(s, sep) ==
    LET k == IndexFrom(s, sep, 1) IN
    IF k = 0 THEN <<s>> ELSE <<SubSeq(s, 1, k - 1)>> \o split(Drop(s, k), sep)

\* [p.strip() for p in pieces if p.strip()]
RECURSIVE StripNonEmpty(_)
StripNonEmpty(pieces) ==
    IF pieces = <<>> THEN <<>>
    ELSE (IF strip(Head(pieces)) # <<>> THEN <<strip(Head(pieces))>> ELSE <<>>)
             \o StripNonEmpty(Tail(pieces))

\* the keys of a dict filled by "for var in names: variables[var] = ''"
RECURSIVE DictKeys(_)
DictKeys(names) ==
    IF names = <<>> THEN <<>>
    ELSE LET front == DictKeys(SubSeq(names, 1, Len(names) - 1))
             last  == names[Len(names)]
         IN  IF last \in Range(front) THEN front ELSE Append(front, last)

(***************************************************************************)
(* The AST and the parser.  An optional field (persona, chain) is the      *)
(* empty sequence for None and a one-element sequence otherwise.           *)
(***************************************************************************)
None == <<>>
Some(v) == <<v>>

ParseError == [error |-> "ParseError"]
IsError(r) == "error" \in DOMAIN r

\* the subject and what follows it: lines 127-137
SubjectOf(rest) ==
    LET close == IndexFrom(rest, QUOTE, 2)
        w     == WordRun(rest, 2)
    IN  IF rest # <<>> /\ rest[1] = QUOTE /\ close > 0
        THEN [subject |-> SubSeq(rest, 2, close - 1), rest |-> strip(Drop(rest, close))]
        ELSE IF rest # <<>> /\ rest[1] = "{" /\ w > 0
                /\ w + 2 <= Len(rest) /\ rest[w + 2] = "}"
        THEN [subject |-> <<"{">> \o SubSeq(rest, 2, w + 1) \o <<"}">>,
              rest |-> strip(Drop(rest, w + 2))]
        ELSE [subject |-> <<>>, rest |-> rest]

\* the parallel outputs: lines 148-152
ParallelOf(rest) ==
    LET m == ParallelSearch(rest, 1) IN
    IF m = <<>> THEN <<>> ELSE StripNonEmpty(split(m, "&"))

_parse_single(command) ==
    LET n == WordRun(command, 1) IN
    IF n = 0 THEN ParseError
    ELSE LET action == Take(command, n)
             sub    == SubjectOf(strip(Drop(command, n)))
             rest   == sub.rest
         IN  [action     |-> action,
              subject    |-> sub.subject,
              specifiers |-> FindAllSpecifiers(rest, 1),
              must       |-> FindAllPrefixed(rest, "!", 1),
              maybe      |-> FindAllPrefixed(rest, "~", 1),
              priority   |-> FindAllPrefixed(rest, "^", 1),
              avoid      |-> FindAllPrefixed(rest, "_", 1),
              chain      |-> None,
              parallel   |-> ParallelOf(rest),
              persona    |-> None,
              variables  |-> DictKeys(FindAllVars(command, 1))]

\* re.match(r'@as\s+"([^"]+)"\s*\{(.+)\}', command, re.DOTALL): its two groups,
\* or matched = FALSE
PersonaMatch(command) ==
    LET open  == 4 + SpaceRun(command, 4)          \* the opening quote
        close == IndexFrom(command, QUOTE, open + 1)
        brace == close + 1 + SpaceRun(command, close + 1)
        last  == LastIndexFrom(command, "}", brace + 2)
    IN  IF /\ StartsAt(command, 1, <<"@", "a", "s">>)
           /\ SpaceRun(command, 4) > 0
           /\ open <= Len(command) /\ command[open] = QUOTE
           /\ close > open + 1
           /\ brace <= Len(command) /\ command[brace] = "{"
           /\ last > 0
        THEN [matched |-> TRUE,
              persona |-> SubSeq(command, open + 1, close - 1),
              body    |-> SubSeq(command, brace + 1, last - 1)]
        ELSE [matched |-> FALSE, persona |-> <<>>, body |-> <<>>]

CHAIN_SEP == <<" ", ">", " ">>

\* the mutant: the slice starts one segment too far
RestOfChainSkipping(chain_parts) == join(CHAIN_SEP, Tail(Tail(chain_parts)))

\* " > ".join(chain_parts[1:])
RestOfChain(chain_parts) == join(CHAIN_SEP, Tail(chain_parts))

RECURSIVE parse(_)
parse(command0) ==
    LET stripped    == strip(command0)
        m           == PersonaMatch(stripped)
        persona     == IF m.matched THEN Some(m.persona) ELSE None
        command     == IF m.matched THEN strip(m.body) ELSE stripped
        chain_parts == _split_chain(command)
    IN  IF Len(chain_parts) > 1
        THEN LET head == _parse_single(chain_parts[1]) IN
             IF IsError(head) THEN ParseError
             ELSE LET rest == parse(RestOfChain(chain_parts)) IN
                  IF IsError(rest) THEN ParseError
                  ELSE [head EXCEPT !.persona = persona, !.chain = Some(rest)]
        ELSE LET single == _parse_single(command) IN
             IF IsError(single) THEN ParseError
             ELSE [single EXCEPT !.persona = persona]

(***************************************************************************)
(* The callers' inputs.  A command is typed piece by piece from a small    *)
(* alphabet, or is one of the commands the repository documents.           *)
(***************************************************************************)
\* analyze "a > b" > fix
ExampleQuotedChain ==
    <<"a", "n", "a", "l", "y", "z", "e", " ", QUOTE, "a", " ", ">", " ", "b", QUOTE, " ",
      ">", " ", "f", "i", "x">>
\* summarize {doc} > translate[es] > format[json]   (tests/test_parser.py:87)
ExampleLongChain ==
    <<"s", "u", "m", "m", "a", "r", "i", "z", "e", " ", "{", "d", "o", "c", "}", " ",
      ">", " ", "t", "r", "a", "n", "s", "l", "a", "t", "e", "[", "e", "s", "]", " ",
      ">", " ", "f", "o", "r", "m", "a", "t", "[", "j", "s", "o", "n", "]">>
\* @as "expert" { review {code} }   (tests/test_parser.py:97)
ExamplePersona ==
    <<"@", "a", "s", " ", QUOTE, "e", "x", "p", "e", "r", "t", QUOTE, " ", "{", " ", "r",
      "e", "v", "i", "e", "w", " ", "{", "c", "o", "d", "e", "}", " ", "}">>
\* code "sort" [python] !typed ^fast _verbose ~elegant   (tests/test_parser.py:53)
ExampleModifiers ==
    <<"c", "o", "d", "e", " ", QUOTE, "s", "o", "r", "t", QUOTE, " ", "[", "p", "y", "t",
      "h", "o", "n", "]", " ", "!", "t", "y", "p", "e", "d", " ", "^", "f", "a", "s",
      "t", " ", "_", "v", "e", "r", "b", "o", "s", "e", " ", "~", "e", "l", "e", "g",
      "a", "n", "t">>

\* write "email" !professional !short   (transpiler.py:148, the documentation of transpile)
ExampleDocstring ==
    <<"w", "r", "i", "t", "e", " ", QUOTE, "e", "m", "a", "i", "l", QUOTE, " ", "!",
      "p", "r", "o", "f", "e", "s", "s", "i", "o", "n", "a", "l", " ", "!", "s", "h",
      "o", "r", "t">>
\* write "text" > translate[es]   (tests/test_transpiler.py:37)
ExampleTextChain ==
    <<"w", "r", "i", "t", "e", " ", QUOTE, "t", "e", "x", "t", QUOTE, " ", ">", " ",
      "t", "r", "a", "n", "s", "l", "a", "t", "e", "[", "e", "s", "]">>
\* analyze {code} > fix !all > test[unit]   (tests/test_transpiler.py:94)
ExampleAnalysisChain ==
    <<"a", "n", "a", "l", "y", "z", "e", " ", "{", "c", "o", "d", "e", "}", " ", ">",
      " ", "f", "i", "x", " ", "!", "a", "l", "l", " ", ">", " ", "t", "e", "s", "t",
      "[", "u", "n", "i", "t", "]">>
\* @as "senior developer" { review {code} !honest ^security }   (tests/test_parser.py:102)
ExamplePersonaModifiers ==
    <<"@", "a", "s", " ", QUOTE, "s", "e", "n", "i", "o", "r", " ", "d", "e", "v", "e",
      "l", "o", "p", "e", "r", QUOTE, " ", "{", " ", "r", "e", "v", "i", "e", "w", " ",
      "{", "c", "o", "d", "e", "}", " ", "!", "h", "o", "n", "e", "s", "t", " ", "^",
      "s", "e", "c", "u", "r", "i", "t", "y", " ", "}">>

EXAMPLES ==
    {ExampleQuotedChain, ExampleLongChain, ExamplePersona, ExampleModifiers,
     ExampleDocstring, ExampleTextChain, ExampleAnalysisChain, ExamplePersonaModifiers}

NoResult == [error |-> "not called"]

SplitAlphabet ==
    {<<"a">>, <<" ">>, <<QUOTE>>, <<BACKSLASH>>, <<">">>, <<"[">>, <<")">>}

InitWith(examples) ==
    /\ toks \in {<<>>} \cup {<<e>> : e \in examples}
    /\ cmd = Flatten(toks)
    /\ pc = "input"
    /\ parts = <<>>
    /\ ast = NoResult
    /\ warnings = <<>>
    /\ bindings = <<>>
    /\ prompt = <<>>
    /\ ContractIdle
    /\ CoreIdle

\* the caller extends the command by one piece of the alphabet
Type(alphabet, max) ==
    /\ pc = "input"
    /\ cmd \notin EXAMPLES
    /\ Len(toks) < max
    /\ \E t \in alphabet :
          /\ toks' = Append(toks, t)
          /\ cmd' = cmd \o t
    /\ UNCHANGED <<pc, parts, ast, warnings, bindings, prompt>>
    /\ UNCHANGED contractVars
    /\ UNCHANGED <<callVars, objectVars>>

TypeSplit == Type(SplitAlphabet, MaxSplitLen)

Call_split_chain ==
    /\ pc = "input"
    /\ parts' = _split_chain(cmd)
    /\ pc' = "split"
    /\ UNCHANGED <<toks, cmd, ast, warnings, bindings, prompt>>
    /\ UNCHANGED contractVars
    /\ UNCHANGED <<callVars, objectVars>>

InitSplit == InitWith({ExampleQuotedChain, ExampleLongChain})
NextSplit == TypeSplit \/ Call_split_chain
SpecSplit == InitSplit /\ [][NextSplit]_vars

(***************************************************************************)
(* C1, C2: the segments of a command.                                      *)
(***************************************************************************)
\* the character at i is a quote that no backslash precedes
UnescapedQuote(s, i) == s[i] = QUOTE /\ (i = 1 \/ s[i - 1] # BACKSLASH)

\* an odd number of unescaped quotes lies before i
InsideLiteral(s, i) == Cardinality({j \in 1..(i - 1) : UnescapedQuote(s, j)}) % 2 = 1

\* brackets opened minus brackets closed before i, those inside literals not counted
DepthBefore(s, i) ==
    Cardinality({j \in 1..(i - 1) : s[j] \in OPENERS /\ ~InsideLiteral(s, j)})
      - Cardinality({j \in 1..(i - 1) : s[j] \in CLOSERS /\ ~InsideLiteral(s, j)})

SplitPoints(s) ==
    {i \in 1..Len(s) : s[i] = ">" /\ ~InsideLiteral(s, i) /\ DepthBefore(s, i) = 0}

\* the k-th split point from the left; 0 for k = 0
NthSplit(s, k) ==
    IF k = 0 THEN 0
    ELSE CHOOSE i \in SplitPoints(s) : Cardinality({j \in SplitPoints(s) : j < i}) = k - 1

\* the text before each split point, and the text after the last one unless blank
SegmentsAt(s) ==
    LET n    == Cardinality(SplitPoints(s))
        last == strip(SubSeq(s, NthSplit(s, n) + 1, Len(s)))
    IN  [k \in 1..n |-> strip(SubSeq(s, NthSplit(s, k - 1) + 1, NthSplit(s, k) - 1))]
            \o (IF last # <<>> THEN <<last>> ELSE <<>>)

\* C1: _split_chain ends a segment at a ">" exactly when that ">" is outside
\* every double-quoted literal and the bracket depth before it is zero; the
\* documented command  analyze "a > b" > fix  has exactly two segments.
C1_SplitOnlyOutsideQuotesAtDepthZero ==
    pc = "split" =>
        /\ parts = SegmentsAt(cmd)
        /\ cmd = ExampleQuotedChain => Len(parts) = 2

\* a ">" inside a literal or inside brackets was kept, another one ended a segment
C1_Witness ==
    /\ pc = "split"
    /\ SplitPoints(cmd) # {}
    /\ \E i \in 1..Len(cmd) : cmd[i] = ">" /\ i \notin SplitPoints(cmd)

\* C2: no element of the list _split_chain returns is empty, and none has
\* leading or trailing whitespace.
C2_NoEmptySegment ==
    pc = "split" =>
        \A k \in 1..Len(parts) : parts[k] # <<>> /\ strip(parts[k]) = parts[k]

(***************************************************************************)
(* parse on chained and persona-wrapped commands.                          *)
(***************************************************************************)
\* @as "p"{
PersonaOpen == <<"@", "a", "s", " ", QUOTE, "p", QUOTE, "{">>

ChainAlphabet ==
    {<<"a">>, <<"b">>, <<" ">>, <<">">>, PersonaOpen, <<"}">>, <<QUOTE>>}

TypeChain == Type(ChainAlphabet, MaxChainToks)

Call_parse ==
    /\ pc = "input"
    /\ ast' = parse(cmd)
    /\ pc' = "parsed"
    /\ UNCHANGED <<toks, cmd, parts, warnings, bindings, prompt>>
    /\ UNCHANGED contractVars
    /\ UNCHANGED <<callVars, objectVars>>

InitChain == InitWith({ExampleLongChain, ExamplePersona})
NextChain == TypeChain \/ Call_parse
SpecChain == InitChain /\ [][NextChain]_vars

\* the nodes of a chain from its head on, in order
RECURSIVE ChainNodes(_)
ChainNodes(node) ==
    IF node.chain = None THEN <<node>> ELSE <<node>> \o ChainNodes(node.chain[1])

\* the leading run of word characters of a segment
LeadingWord(seg) ==
    SubSeq(seg, 1, Cardinality({n \in 1..Len(seg) : \A k \in 1..n : IsWord(seg[k])}))

\* C3: persona is set on at most the head node of the chain parse returns;
\* every node reached through chain has persona = None.
C3_PersonaOnlyOnHead ==
    (pc = "parsed" /\ ~IsError(ast)) =>
        \A k \in 2..Len(ChainNodes(ast)) : ChainNodes(ast)[k].persona = None

\* C5: a command without persona wrapper whose n >= 1 segments each begin with a
\* word character parses to a chain of exactly n nodes, whose actions are the
\* leading words of the segments in order.
C5_ChainHasOneNodePerSegment ==
    LET segs == SegmentsAt(strip(cmd)) IN
    (/\ pc = "parsed"
     /\ ~PersonaMatch(strip(cmd)).matched
     /\ Len(segs) >= 1
     /\ \A k \in 1..Len(segs) : segs[k] # <<>> /\ IsWord(segs[k][1]))
        => /\ ~IsError(ast)
           /\ Len(ChainNodes(ast)) = Len(segs)
           /\ \A k \in 1..Len(segs) : ChainNodes(ast)[k].action = LeadingWord(segs[k])

\* a chain of three nodes was parsed from three segments
C5_Witness ==
    /\ pc = "parsed"
    /\ ~IsError(ast)
    /\ ~PersonaMatch(strip(cmd)).matched
    /\ Len(SegmentsAt(strip(cmd))) = 3
    /\ Len(ChainNodes(ast)) = 3

\* the text after the closing brace of the persona wrapper
AfterWrapper(command) == SubSeq(command, LastIndexFrom(command, "}", 1) + 1, Len(command))

\* the segments that text holds
SegmentsAfterWrapper(command) ==
    SelectSeq(_split_chain(AfterWrapper(command)), LAMBDA seg : seg # <<>>)

\* C28: for a command of the form  @as "p" { a } > b , the segments after the
\* closing brace of the wrapper are parsed into the chain of the returned
\* tree: its last nodes are those segments in order, none is dropped.
C28_SegmentsAfterWrapperAreParsed ==
    LET segs  == SegmentsAfterWrapper(strip(cmd))
        nodes == ChainNodes(ast)
    IN  (/\ pc = "parsed"
         /\ PersonaMatch(strip(cmd)).matched
         /\ ~IsError(ast)
         /\ StartsAt(strip(AfterWrapper(strip(cmd))), 1, <<">">>)
         /\ \A k \in 1..Len(segs) : IsWord(segs[k][1]))
            => /\ Len(nodes) > Len(segs)
               /\ \A k \in 1..Len(segs) :
                      nodes[Len(nodes) - Len(segs) + k].action = LeadingWord(segs[k])

(***************************************************************************)
(* _parse_single on one segment.                                           *)
(***************************************************************************)
Call_parse_single ==
    /\ pc = "input"
    /\ ast' = _parse_single(cmd)
    /\ pc' = "parsed_single"
    /\ UNCHANGED <<toks, cmd, parts, warnings, bindings, prompt>>
    /\ UNCHANGED contractVars
    /\ UNCHANGED <<callVars, objectVars>>

\* C6: the action.
ActionAlphabet == {<<"a">>, <<"_">>, <<"1">>, <<" ">>, <<"!">>, <<QUOTE>>, <<">">>}

TypeAction == Type(ActionAlphabet, MaxActionLen)

InitAction == InitWith({ExampleModifiers})
NextAction == TypeAction \/ Call_parse_single \/ Call_parse
SpecAction == InitAction /\ [][NextAction]_vars

\* letters, digits and the underscore
WordCharacters ==
    {"a","b","c","d","e","f","g","h","i","j","k","l","m",
     "n","o","p","q","r","s","t","u","v","w","x","y","z",
     "A","B","C","D","E","F","G","H","I","J","K","L","M",
     "N","O","P","Q","R","S","T","U","V","W","X","Y","Z",
     "0","1","2","3","4","5","6","7","8","9","_"}

Blank(s) == \A i \in 1..Len(s) : s[i] \in {" ", "\t", "\n"}

\* C6: _parse_single raises ParseError exactly when its input does not start
\* with a word character; parse of an empty or blank command raises ParseError;
\* otherwise the action is the longest leading run of word characters, whatever word it is.
C6_ActionIsLeadingWordRun ==
    /\ pc = "parsed_single" =>
          /\ IsError(ast) <=> (cmd = <<>> \/ cmd[1] \notin WordCharacters)
          /\ ~IsError(ast) =>
                /\ Len(ast.action) >= 1
                /\ ast.action = SubSeq(cmd, 1, Len(ast.action))
                /\ \A k \in 1..Len(ast.action) : cmd[k] \in WordCharacters
                /\ Len(ast.action) < Len(cmd) => cmd[Len(ast.action) + 1] \notin WordCharacters
    /\ (pc = "parsed" /\ Blank(cmd)) => IsError(ast)

\* an action of several characters, underscore and digit included, was accepted
C6_Witness ==
    /\ pc = "parsed_single"
    /\ ~IsError(ast)
    /\ Len(ast.action) = 3
    /\ "_" \in Range(ast.action)
    /\ Len(cmd) > 3

\* C4: the modifier lists.  The segment is written token by token.
ModifierAlphabet ==
    {<<"w">>,
     <<" ", QUOTE, "s", QUOTE>>,
     <<" ", "!", "x">>,
     <<" ", "~", "y">>,
     <<" ", "^", "x">>,
     <<" ", "_", "z">>,
     <<" ", "!", "u", "_", "1">>,
     <<" ", "[", "p", "]">>,
     <<" ", "[", "s", "_", "c", "]">>}

TypeModifier == Type(ModifierAlphabet, MaxModifierToks)

InitModifier == InitWith({ExampleModifiers})
NextModifier == TypeModifier \/ Call_parse_single
SpecModifier == InitModifier /\ [][NextModifier]_vars

\* the token is a blank, the prefix character and then an identifier
IsPrefixed(tok, prefix) ==
    /\ Len(tok) >= 3
    /\ tok[1] = " " /\ tok[2] = prefix
    /\ \A k \in 3..Len(tok) : tok[k] \in WordCharacters

\* the token is a blank and then [...]
IsSpecifier(tok) == Len(tok) >= 4 /\ tok[1] = " " /\ tok[2] = "[" /\ tok[Len(tok)] = "]"

\* the identifiers of the tokens written with the prefix, in the order written
RECURSIVE WrittenWith(_, _)
WrittenWith(tokens, prefix) ==
    IF tokens = <<>> THEN <<>>
    ELSE (IF IsPrefixed(Head(tokens), prefix)
          THEN <<SubSeq(Head(tokens), 3, Len(Head(tokens)))>> ELSE <<>>)
             \o WrittenWith(Tail(tokens), prefix)

\* the contents of the [...] tokens, in the order written
RECURSIVE WrittenSpecifiers(_)
WrittenSpecifiers(tokens) ==
    IF tokens = <<>> THEN <<>>
    ELSE (IF IsSpecifier(Head(tokens))
          THEN <<SubSeq(Head(tokens), 3, Len(Head(tokens)) - 1)>> ELSE <<>>)
             \o WrittenSpecifiers(Tail(tokens))

\* an action, then only modifier and specifier tokens
ModifierSegment(tokens) ==
    /\ Len(tokens) >= 1
    /\ tokens[1] = <<"w">>
    /\ \A k \in 2..Len(tokens) :
          \/ IsSpecifier(tokens[k])
          \/ \E prefix \in {"!", "~", "^", "_"} : IsPrefixed(tokens[k], prefix)

\* C4: must, maybe, priority and avoid are exactly the identifiers written as
\* tokens with the prefix !, ~, ^, _ (in order, duplicates kept) and specifiers
\* exactly the [...] contents; an inner underscore adds nothing to avoid.
C4_ModifierListsAsWritten ==
    (pc = "parsed_single" /\ ModifierSegment(toks)) =>
        /\ ~IsError(ast)
        /\ ast.must = WrittenWith(toks, "!")
        /\ ast.maybe = WrittenWith(toks, "~")
        /\ ast.priority = WrittenWith(toks, "^")
        /\ ast.avoid = WrittenWith(toks, "_")
        /\ ast.specifiers = WrittenSpecifiers(toks)

\* C7: the subject.
SubjectAlphabet == {<<"a">>, <<" ">>, <<QUOTE>>, <<BACKSLASH>>, <<"{">>, <<"}">>}

TypeSubject == Type(SubjectAlphabet, MaxSubjectLen)

InitSubject == InitWith({ExampleModifiers})
NextSubject == TypeSubject \/ Call_parse_single
SpecSubject == InitSubject /\ [][NextSubject]_vars

\* s without the blanks at its two ends
Trim(s) ==
    LET sp == {i \in 1..Len(s) : s[i] \notin {" ", "\t", "\n"}} IN
    IF sp = {} THEN <<>>
    ELSE SubSeq(s, CHOOSE i \in sp : \A j \in sp : i <= j,
                   CHOOSE i \in sp : \A j \in sp : j <= i)

\* what follows the action, blanks removed at both ends
Remainder(s) == Trim(SubSeq(s, Len(LeadingWord(s)) + 1, Len(s)))

\* the closing quotes of a literal that opens at index 1, by the segmenter's rule
ClosingQuotes(r) == {i \in 2..Len(r) : UnescapedQuote(r, i)}

\* C7: when the remainder starts with a double-quoted literal, subject is the
\* literal's contents up to its closing quote, and an escaped quote does not close
\* it; else when it starts with {name}, subject is the text {name}; else empty.
C7_SubjectOfSegment ==
    LET r     == Remainder(cmd)
        close == CHOOSE i \in ClosingQuotes(r) : \A j \in ClosingQuotes(r) : i <= j
        name  == LeadingWord(Drop(r, 1))
    IN  (pc = "parsed_single" /\ ~IsError(ast)) =>
            IF r # <<>> /\ r[1] = QUOTE /\ ClosingQuotes(r) # {}
            THEN ast.subject = SubSeq(r, 2, close - 1)
            ELSE IF r # <<>> /\ r[1] = QUOTE
            THEN TRUE
            ELSE IF r # <<>> /\ r[1] = "{" /\ name # <<>>
                    /\ Len(name) + 2 <= Len(r) /\ r[Len(name) + 2] = "}"
            THEN ast.subject = <<"{">> \o name \o <<"}">>
            ELSE ast.subject = <<>>

\* C8: the parallel outputs.
ParallelAlphabet == {<<"a">>, <<"b">>, <<" ">>, <<"&">>}

TypeParallel == Type(ParallelAlphabet, MaxParallelLen)

InitParallel == InitWith({ExampleModifiers})
NextParallel == TypeParallel \/ Call_parse_single
SpecParallel == InitParallel /\ [][NextParallel]_vars

\* the pieces of s between its "&" characters, blanks removed at both ends
AmpersandPieces(s) ==
    LET amps == {i \in 1..Len(s) : s[i] = "&"}
        nth(k) == IF k = 0 THEN 0
                  ELSE IF k > Cardinality(amps) THEN Len(s) + 1
                  ELSE CHOOSE i \in amps : Cardinality({j \in amps : j < i}) = k - 1
    IN  [k \in 1..(Cardinality(amps) + 1) |-> Trim(SubSeq(s, nth(k - 1) + 1, nth(k) - 1))]

IsBareWord(w) == w # <<>> /\ \A k \in 1..Len(w) : w[k] \in WordCharacters

\* C8: when what follows the action is a run of bare words w1 & w2 & ... & wn,
\* n >= 2, parallel is [w1, ..., wn], the first word included; without any "&"
\* parallel is empty.
C8_ParallelListsEveryWord ==
    LET pieces == AmpersandPieces(Remainder(cmd)) IN
    (pc = "parsed_single" /\ ~IsError(ast)) =>
        /\ (Len(pieces) >= 2 /\ \A k \in 1..Len(pieces) : IsBareWord(pieces[k]))
              => ast.parallel = pieces
        /\ "&" \notin Range(cmd) => ast.parallel = <<>>

(***************************************************************************)
(* validate: the advisory warnings of parser.py.                           *)
(***************************************************************************)
\* the characters of the model in code point order
CODE_POINTS ==
    <<"0","1","2","3","4","5","6","7","8","9",
      "A","B","C","D","E","F","G","H","I","J","K","L","M",
      "N","O","P","Q","R","S","T","U","V","W","X","Y","Z",
      "_",
      "a","b","c","d","e","f","g","h","i","j","k","l","m",
      "n","o","p","q","r","s","t","u","v","w","x","y","z">>

ord(c) == CHOOSE i \in DOMAIN CODE_POINTS : CODE_POINTS[i] = c

\* x < y for two str values
StrLess(x, y) ==
    \E k \in 1..(Len(y)) :
        /\ k <= Len(x) + 1
        /\ \A j \in 1..(k - 1) : x[j] = y[j]
        /\ k = Len(x) + 1 \/ ord(x[k]) < ord(y[k])

\* sorted(S) for a set of str
RECURSIVE sorted(_)
sorted(S) ==
    IF S = {} THEN <<>>
    ELSE LET least == CHOOSE x \in S : \A y \in S \ {x} : StrLess(x, y) IN
         <<least>> \o sorted(S \ {least})

valid_actions ==
    {<<"w","r","i","t","e">>,
     <<"r","e","w","r","i","t","e">>,
     <<"s","u","m","m","a","r","i","z","e">>,
     <<"e","x","p","a","n","d">>,
     <<"t","r","a","n","s","l","a","t","e">>,
     <<"e","x","p","l","a","i","n">>,
     <<"l","i","s","t">>,
     <<"c","o","m","p","a","r","e">>,
     <<"r","e","p","l","y">>,
     <<"t","i","t","l","e">>,
     <<"i","m","g">>,
     <<"e","d","i","t","_","i","m","g">>,
     <<"d","e","s","c","r","i","b","e","_","i","m","g">>,
     <<"s","t","y","l","e">>,
     <<"l","o","g","o">>,
     <<"i","c","o","n">>,
     <<"d","i","a","g","r","a","m">>,
     <<"m","o","c","k","u","p">>,
     <<"c","o","d","e">>,
     <<"f","i","x">>,
     <<"r","e","f","a","c","t","o","r">>,
     <<"t","e","s","t">>,
     <<"r","e","v","i","e","w">>,
     <<"c","o","n","v","e","r","t">>,
     <<"a","p","i">>,
     <<"q","u","e","r","y">>,
     <<"r","e","g","e","x">>,
     <<"d","o","c","s">>,
     <<"a","n","a","l","y","z","e">>,
     <<"e","v","a","l","u","a","t","e">>,
     <<"p","r","e","d","i","c","t">>,
     <<"d","i","a","g","n","o","s","e">>,
     <<"r","e","c","o","m","m","e","n","d">>,
     <<"r","a","n","k">>,
     <<"v","e","r","i","f","y">>,
     <<"e","x","t","r","a","c","t">>,
     <<"c","l","a","s","s","i","f","y">>,
     <<"s","e","n","t","i","m","e","n","t">>,
     <<"b","r","a","i","n","s","t","o","r","m">>,
     <<"n","a","m","e">>,
     <<"s","t","o","r","y">>,
     <<"j","o","k","e">>,
     <<"p","o","e","m">>,
     <<"s","c","r","i","p","t">>,
     <<"p","i","t","c","h">>,
     <<"s","l","o","g","a","n">>,
     <<"r","e","c","i","p","e">>,
     <<"p","l","a","y","l","i","s","t">>,
     <<"f","o","r","m","a","t">>,
     <<"m","e","r","g","e">>,
     <<"s","p","l","i","t">>,
     <<"f","i","l","t","e","r">>,
     <<"s","o","r","t">>,
     <<"d","e","d","u","p","e">>,
     <<"v","a","l","i","d","a","t","e">>,
     <<"m","a","p">>,
     <<"t","e","m","p","l","a","t","e">>,
     <<"p","a","r","s","e">>,
     <<"r","e","s","e","a","r","c","h">>,
     <<"p","l","a","n">>,
     <<"g","e","n","e","r","a","t","e">>}

NO_SUBJECT_ACTIONS == {<<"l","i","s","t">>, <<"b","r","a","i","n","s","t","o","r","m">>}

UNKNOWN_1 == <<"U","n","k","n","o","w","n"," ","a","c","t","i","o","n"," ","'">>
UNKNOWN_2 ==
    <<"'","."," ","D","i","d"," ","y","o","u"," ","m","e","a","n"," ","o","n","e"," ","o",
      "f",":"," ">>
UNKNOWN_3 == <<".",".",".","?">>
SUBJECT_1 == <<"A","c","t","i","o","n"," ","'">>
SUBJECT_2 == <<"'"," ","t","y","p","i","c","a","l","l","y"," ","r","e","q","u","i","r","e",
               "s"," ","a"," ","s","u","b","j","e","c","t",".">>
COMMA_SPACE == <<",", " ">>

UnknownActionWarning(node) ==
    LET sample == join(COMMA_SPACE, Take(sorted(valid_actions), 5)) IN
    UNKNOWN_1 \o node.action \o UNKNOWN_2 \o sample \o UNKNOWN_3

MissingSubjectWarning(node) == SUBJECT_1 \o node.action \o SUBJECT_2

\* the mutant: the second test is an elif of the first
validate_elif(node) ==
    IF node.action \notin valid_actions THEN <<UnknownActionWarning(node)>>
    ELSE IF node.subject = <<>> /\ node.action \notin NO_SUBJECT_ACTIONS
    THEN <<MissingSubjectWarning(node)>>
    ELSE <<>>

validate(node) ==
    (IF node.action \notin valid_actions THEN <<UnknownActionWarning(node)>> ELSE <<>>)
      \o (IF node.subject = <<>> /\ node.action \notin NO_SUBJECT_ACTIONS
          THEN <<MissingSubjectWarning(node)>> ELSE <<>>)

\* the words a caller may write as the action: the vocabulary and three others
ActionWords == valid_actions \cup {<<"f","o","o","b","a","r">>, <<"l","i","s","t","s">>, <<"w","r","i","t">>}

SubjectTexts ==
    {<<" ", QUOTE, "x", QUOTE>>, <<" ", QUOTE, QUOTE>>, <<" ", "{", "v", "}">>,
     <<" ", "!", "s">>}

\* the caller writes the action word
TypeActionWord ==
    /\ pc = "input"
    /\ toks = <<>>
    /\ \E w \in ActionWords : toks' = <<w>> /\ cmd' = w
    /\ UNCHANGED <<pc, parts, ast, warnings, bindings, prompt>>
    /\ UNCHANGED contractVars
    /\ UNCHANGED <<callVars, objectVars>>

\* the caller writes what follows the action
TypeSubjectText ==
    /\ pc = "input"
    /\ Len(toks) = 1
    /\ \E t \in SubjectTexts : toks' = Append(toks, t) /\ cmd' = cmd \o t
    /\ UNCHANGED <<pc, parts, ast, warnings, bindings, prompt>>
    /\ UNCHANGED contractVars
    /\ UNCHANGED <<callVars, objectVars>>

Call_validate ==
    /\ pc = "parsed"
    /\ ~IsError(ast)
    /\ warnings' = validate(ast)
    /\ pc' = "validated"
    /\ UNCHANGED <<toks, cmd, parts, ast, bindings, prompt>>
    /\ UNCHANGED contractVars
    /\ UNCHANGED <<callVars, objectVars>>

InitValidate == InitWith({})
NextValidate == TypeActionWord \/ TypeSubjectText \/ Call_parse \/ Call_validate
SpecValidate == InitValidate /\ [][NextValidate]_vars

\* analyze, api, brainstorm, classify, code
FiveSmallest ==
    <<"a","n","a","l","y","z","e",","," ","a","p","i",","," ","b","r","a","i","n","s","t",
      "o","r","m",","," ","c","l","a","s","s","i","f","y",","," ","c","o","d","e">>

\* C9: validate returns, in this order, the unknown-action warning exactly when
\* the action is outside the vocabulary (it names the action and the five
\* lexicographically smallest entries) and the missing-subject warning exactly
\* when the subject is empty and the action is neither list nor brainstorm.
C9_WarningsOfValidate ==
    LET unknown == ast.action \notin valid_actions
        missing == ast.subject = <<>> /\ ast.action \notin {<<"l","i","s","t">>, <<"b","r","a","i","n","s","t","o","r","m">>}
    IN  pc = "validated" =>
            /\ Len(warnings) = (IF unknown THEN 1 ELSE 0) + (IF missing THEN 1 ELSE 0)
            /\ unknown => warnings[1] = UNKNOWN_1 \o ast.action \o UNKNOWN_2
                                            \o FiveSmallest \o UNKNOWN_3
            /\ missing => warnings[Len(warnings)] = SUBJECT_1 \o ast.action \o SUBJECT_2
            /\ warnings = <<>> <=> (~unknown /\ ~missing)

\* an unknown action without subject got both warnings, the unknown-action one first
C9_Witness ==
    /\ pc = "validated"
    /\ ast.action \notin valid_actions
    /\ ast.subject = <<>>
    /\ Len(warnings) = 2

(***************************************************************************)
(* The forward transpiler of transpiler.py.  A lookup table is a set of    *)
(* <<key, value>> pairs.                                                   *)
(***************************************************************************)
ACTION_TEMPLATES ==
    {
     <<<<"w","r","i","t","e">>,
       <<"W","r","i","t","e"," ","{","s","u","b","j","e","c","t","}">>>>,
     <<<<"r","e","w","r","i","t","e">>,
       <<"R","e","w","r","i","t","e"," ","t","h","e"," ","f","o","l","l","o","w","i","n","g",
         ":"," ","{","s","u","b","j","e","c","t","}">>>>,
     <<<<"s","u","m","m","a","r","i","z","e">>,
       <<"S","u","m","m","a","r","i","z","e"," ","{","s","u","b","j","e","c","t","}">>>>,
     <<<<"e","x","p","a","n","d">>,
       <<"E","x","p","a","n","d"," ","o","n"," ","{","s","u","b","j","e","c","t","}"," ","w",
         "i","t","h"," ","m","o","r","e"," ","d","e","t","a","i","l">>>>,
     <<<<"t","r","a","n","s","l","a","t","e">>,
       <<"T","r","a","n","s","l","a","t","e"," ","{","s","u","b","j","e","c","t","}">>>>,
     <<<<"e","x","p","l","a","i","n">>,
       <<"E","x","p","l","a","i","n"," ","{","s","u","b","j","e","c","t","}">>>>,
     <<<<"l","i","s","t">>,
       <<"L","i","s","t"," ","{","s","u","b","j","e","c","t","}">>>>,
     <<<<"c","o","m","p","a","r","e">>,
       <<"C","o","m","p","a","r","e"," ","{","s","u","b","j","e","c","t","}">>>>,
     <<<<"r","e","p","l","y">>,
       <<"W","r","i","t","e"," ","a"," ","r","e","p","l","y"," ","t","o"," ","{","s","u","b",
         "j","e","c","t","}">>>>,
     <<<<"t","i","t","l","e">>,
       <<"G","e","n","e","r","a","t","e"," ","a"," ","t","i","t","l","e"," ","f","o","r"," ",
         "{","s","u","b","j","e","c","t","}">>>>,
     <<<<"i","m","g">>,
       <<"G","e","n","e","r","a","t","e"," ","a","n"," ","i","m","a","g","e"," ","o","f"," ",
         "{","s","u","b","j","e","c","t","}">>>>,
     <<<<"l","o","g","o">>,
       <<"D","e","s","i","g","n"," ","a"," ","l","o","g","o"," ","f","o","r"," ","{","s","u",
         "b","j","e","c","t","}">>>>,
     <<<<"i","c","o","n">>,
       <<"C","r","e","a","t","e"," ","a","n"," ","i","c","o","n"," ","f","o","r"," ","{","s",
         "u","b","j","e","c","t","}">>>>,
     <<<<"d","i","a","g","r","a","m">>,
       <<"C","r","e","a","t","e"," ","a"," ","d","i","a","g","r","a","m"," ","s","h","o","w",
         "i","n","g"," ","{","s","u","b","j","e","c","t","}">>>>,
     <<<<"m","o","c","k","u","p">>,
       <<"C","r","e","a","t","e"," ","a"," ","U","I"," ","m","o","c","k","u","p"," ","f","o",
         "r"," ","{","s","u","b","j","e","c","t","}">>>>,
     <<<<"c","o","d","e">>,
       <<"W","r","i","t","e"," ","c","o","d","e"," ","f","o","r"," ","{","s","u","b","j","e",
         "c","t","}">>>>,
     <<<<"f","i","x">>,
       <<"F","i","x"," ","t","h","e"," ","f","o","l","l","o","w","i","n","g"," ","c","o","d",
         "e",":"," ","{","s","u","b","j","e","c","t","}">>>>,
     <<<<"r","e","f","a","c","t","o","r">>,
       <<"R","e","f","a","c","t","o","r"," ","t","h","e"," ","f","o","l","l","o","w","i","n",
         "g"," ","c","o","d","e",":"," ","{","s","u","b","j","e","c","t","}">>>>,
     <<<<"t","e","s","t">>,
       <<"W","r","i","t","e"," ","t","e","s","t","s"," ","f","o","r"," ","{","s","u","b","j",
         "e","c","t","}">>>>,
     <<<<"r","e","v","i","e","w">>,
       <<"R","e","v","i","e","w"," ","t","h","i","s"," ","c","o","d","e",":"," ","{","s","u",
         "b","j","e","c","t","}">>>>,
     <<<<"c","o","n","v","e","r","t">>,
       <<"C","o","n","v","e","r","t"," ","t","h","i","s"," ","c","o","d","e",":"," ","{","s",
         "u","b","j","e","c","t","}">>>>,
     <<<<"a","p","i">>,
       <<"D","e","s","i","g","n"," ","a","n"," ","A","P","I"," ","f","o","r"," ","{","s","u",
         "b","j","e","c","t","}">>>>,
     <<<<"q","u","e","r","y">>,
       <<"W","r","i","t","e"," ","a"," ","d","a","t","a","b","a","s","e"," ","q","u","e","r",
         "y"," ","f","o","r"," ","{","s","u","b","j","e","c","t","}">>>>,
     <<<<"r","e","g","e","x">>,
       <<"C","r","e","a","t","e"," ","a"," ","r","e","g","e","x"," ","p","a","t","t","e","r",
         "n"," ","f","o","r"," ","{","s","u","b","j","e","c","t","}">>>>,
     <<<<"d","o","c","s">>,
       <<"W","r","i","t","e"," ","d","o","c","u","m","e","n","t","a","t","i","o","n"," ","f",
         "o","r"," ","{","s","u","b","j","e","c","t","}">>>>,
     <<<<"a","n","a","l","y","z","e">>,
       <<"A","n","a","l","y","z","e"," ","{","s","u","b","j","e","c","t","}">>>>,
     <<<<"e","v","a","l","u","a","t","e">>,
       <<"E","v","a","l","u","a","t","e"," ","{","s","u","b","j","e","c","t","}">>>>,
     <<<<"p","r","e","d","i","c","t">>,
       <<"P","r","e","d","i","c","t"," ","{","s","u","b","j","e","c","t","}">>>>,
     <<<<"d","i","a","g","n","o","s","e">>,
       <<"D","i","a","g","n","o","s","e"," ","i","s","s","u","e","s"," ","i","n"," ","{","s",
         "u","b","j","e","c","t","}">>>>,
     <<<<"r","e","c","o","m","m","e","n","d">>,
       <<"R","e","c","o","m","m","e","n","d"," ","{","s","u","b","j","e","c","t","}">>>>,
     <<<<"r","a","n","k">>,
       <<"R","a","n","k"," ","{","s","u","b","j","e","c","t","}">>>>,
     <<<<"v","e","r","i","f","y">>,
       <<"V","e","r","i","f","y"," ","{","s","u","b","j","e","c","t","}">>>>,
     <<<<"e","x","t","r","a","c","t">>,
       <<"E","x","t","r","a","c","t"," ","{","s","u","b","j","e","c","t","}">>>>,
     <<<<"c","l","a","s","s","i","f","y">>,
       <<"C","l","a","s","s","i","f","y"," ","{","s","u","b","j","e","c","t","}">>>>,
     <<<<"s","e","n","t","i","m","e","n","t">>,
       <<"A","n","a","l","y","z","e"," ","t","h","e"," ","s","e","n","t","i","m","e","n","t",
         " ","o","f"," ","{","s","u","b","j","e","c","t","}">>>>,
     <<<<"b","r","a","i","n","s","t","o","r","m">>,
       <<"B","r","a","i","n","s","t","o","r","m"," ","i","d","e","a","s"," ","f","o","r"," ",
         "{","s","u","b","j","e","c","t","}">>>>,
     <<<<"n","a","m","e">>,
       <<"G","e","n","e","r","a","t","e"," ","n","a","m","e","s"," ","f","o","r"," ","{","s",
         "u","b","j","e","c","t","}">>>>,
     <<<<"s","t","o","r","y">>,
       <<"W","r","i","t","e"," ","a"," ","s","t","o","r","y"," ","a","b","o","u","t"," ","{",
         "s","u","b","j","e","c","t","}">>>>,
     <<<<"j","o","k","e">>,
       <<"W","r","i","t","e"," ","a"," ","j","o","k","e"," ","a","b","o","u","t"," ","{","s",
         "u","b","j","e","c","t","}">>>>,
     <<<<"p","o","e","m">>,
       <<"W","r","i","t","e"," ","a"," ","p","o","e","m"," ","a","b","o","u","t"," ","{","s",
         "u","b","j","e","c","t","}">>>>,
     <<<<"s","c","r","i","p","t">>,
       <<"W","r","i","t","e"," ","a"," ","s","c","r","i","p","t"," ","f","o","r"," ","{","s",
         "u","b","j","e","c","t","}">>>>,
     <<<<"p","i","t","c","h">>,
       <<"C","r","e","a","t","e"," ","a"," ","p","i","t","c","h"," ","f","o","r"," ","{","s",
         "u","b","j","e","c","t","}">>>>,
     <<<<"s","l","o","g","a","n">>,
       <<"C","r","e","a","t","e"," ","a"," ","s","l","o","g","a","n"," ","f","o","r"," ","{",
         "s","u","b","j","e","c","t","}">>>>,
     <<<<"r","e","c","i","p","e">>,
       <<"C","r","e","a","t","e"," ","a"," ","r","e","c","i","p","e"," ","f","o","r"," ","{",
         "s","u","b","j","e","c","t","}">>>>,
     <<<<"p","l","a","y","l","i","s","t">>,
       <<"C","r","e","a","t","e"," ","a"," ","p","l","a","y","l","i","s","t"," ","f","o","r",
         " ","{","s","u","b","j","e","c","t","}">>>>,
     <<<<"f","o","r","m","a","t">>,
       <<"F","o","r","m","a","t"," ","{","s","u","b","j","e","c","t","}">>>>,
     <<<<"m","e","r","g","e">>,
       <<"M","e","r","g","e"," ","{","s","u","b","j","e","c","t","}">>>>,
     <<<<"s","p","l","i","t">>,
       <<"S","p","l","i","t"," ","{","s","u","b","j","e","c","t","}">>>>,
     <<<<"f","i","l","t","e","r">>,
       <<"F","i","l","t","e","r"," ","{","s","u","b","j","e","c","t","}">>>>,
     <<<<"s","o","r","t">>,
       <<"S","o","r","t"," ","{","s","u","b","j","e","c","t","}">>>>,
     <<<<"d","e","d","u","p","e">>,
       <<"R","e","m","o","v","e"," ","d","u","p","l","i","c","a","t","e","s"," ","f","r","o",
         "m"," ","{","s","u","b","j","e","c","t","}">>>>,
     <<<<"v","a","l","i","d","a","t","e">>,
       <<"V","a","l","i","d","a","t","e"," ","{","s","u","b","j","e","c","t","}">>>>,
     <<<<"p","a","r","s","e">>,
       <<"P","a","r","s","e"," ","{","s","u","b","j","e","c","t","}">>>>
    }

MUST_EXPANSIONS ==
    {
     <<<<"s","h","o","r","t">>,
       <<"K","e","e","p"," ","i","t"," ","c","o","n","c","i","s","e"," ","a","n","d"," ","b",
         "r","i","e","f",".">>>>,
     <<<<"b","r","i","e","f">>,
       <<"K","e","e","p"," ","i","t"," ","b","r","i","e","f",".">>>>,
     <<<<"c","o","n","c","i","s","e">>,
       <<"B","e"," ","c","o","n","c","i","s","e",".">>>>,
     <<<<"d","e","t","a","i","l","e","d">>,
       <<"I","n","c","l","u","d","e"," ","t","h","o","r","o","u","g","h"," ","d","e","t","a",
         "i","l","s",".">>>>,
     <<<<"l","o","n","g">>,
       <<"M","a","k","e"," ","i","t"," ","c","o","m","p","r","e","h","e","n","s","i","v","e",
         " ","a","n","d"," ","d","e","t","a","i","l","e","d",".">>>>,
     <<<<"s","i","m","p","l","e">>,
       <<"U","s","e"," ","s","i","m","p","l","e",","," ","e","a","s","y","-","t","o","-","u",
         "n","d","e","r","s","t","a","n","d"," ","l","a","n","g","u","a","g","e",".">>>>,
     <<<<"t","e","c","h","n","i","c","a","l">>,
       <<"U","s","e"," ","t","e","c","h","n","i","c","a","l"," ","t","e","r","m","i","n","o",
         "l","o","g","y",".">>>>,
     <<<<"f","o","r","m","a","l">>,
       <<"U","s","e"," ","a"," ","f","o","r","m","a","l"," ","t","o","n","e",".">>>>,
     <<<<"c","a","s","u","a","l">>,
       <<"U","s","e"," ","a"," ","c","a","s","u","a","l",","," ","c","o","n","v","e","r","s",
         "a","t","i","o","n","a","l"," ","t","o","n","e",".">>>>,
     <<<<"p","r","o","f","e","s","s","i","o","n","a","l">>,
       <<"M","a","i","n","t","a","i","n"," ","a"," ","p","r","o","f","e","s","s","i","o","n",
         "a","l"," ","t","o","n","e",".">>>>,
     <<<<"f","r","i","e","n","d","l","y">>,
       <<"U","s","e"," ","a"," ","f","r","i","e","n","d","l","y",","," ","a","p","p","r","o",
         "a","c","h","a","b","l","e"," ","t","o","n","e",".">>>>,
     <<<<"e","x","a","m","p","l","e","s">>,
       <<"I","n","c","l","u","d","e"," ","e","x","a","m","p","l","e","s",".">>>>,
     <<<<"t","y","p","e","d">>,
       <<"I","n","c","l","u","d","e"," ","t","y","p","e"," ","a","n","n","o","t","a","t","i",
         "o","n","s",".">>>>,
     <<<<"t","e","s","t","e","d">>,
       <<"I","n","c","l","u","d","e"," ","u","n","i","t"," ","t","e","s","t","s",".">>>>,
     <<<<"c","o","m","m","e","n","t","e","d">>,
       <<"I","n","c","l","u","d","e"," ","c","o","d","e"," ","c","o","m","m","e","n","t","s",
         ".">>>>,
     <<<<"e","x","p","l","a","i","n","e","d">>,
       <<"E","x","p","l","a","i","n"," ","y","o","u","r"," ","r","e","a","s","o","n","i","n",
         "g",".">>>>,
     <<<<"p","h","o","t","o">>,
       <<"M","a","k","e"," ","i","t"," ","p","h","o","t","o","r","e","a","l","i","s","t","i",
         "c",".">>>>,
     <<<<"a","r","t">>,
       <<"M","a","k","e"," ","i","t"," ","a","r","t","i","s","t","i","c","/","i","l","l","u",
         "s","t","r","a","t","e","d",".">>>>,
     <<<<"m","i","n","i","m","a","l">>,
       <<"U","s","e"," ","a"," ","m","i","n","i","m","a","l","i","s","t"," ","s","t","y","l",
         "e",".">>>>,
     <<<<"h","o","n","e","s","t">>,
       <<"B","e"," ","h","o","n","e","s","t"," ","a","n","d"," ","d","i","r","e","c","t",".">>>>,
     <<<<"c","r","e","a","t","i","v","e">>,
       <<"B","e"," ","c","r","e","a","t","i","v","e"," ","a","n","d"," ","o","r","i","g","i",
         "n","a","l",".">>>>,
     <<<<"a","c","c","u","r","a","t","e">>,
       <<"E","n","s","u","r","e"," ","a","c","c","u","r","a","c","y",".">>>>,
     <<<<"s","t","r","u","c","t","u","r","e","d">>,
       <<"U","s","e"," ","a"," ","c","l","e","a","r"," ","s","t","r","u","c","t","u","r","e",
         " ","w","i","t","h"," ","s","e","c","t","i","o","n","s",".">>>>,
     <<<<"b","u","l","l","e","t","s">>,
       <<"F","o","r","m","a","t"," ","a","s"," ","b","u","l","l","e","t"," ","p","o","i","n",
         "t","s",".">>>>,
     <<<<"n","u","m","b","e","r","e","d">>,
       <<"F","o","r","m","a","t"," ","a","s"," ","a"," ","n","u","m","b","e","r","e","d"," ",
         "l","i","s","t",".">>>>,
     <<<<"b","a","r","e">>,
       <<"R","e","t","u","r","n"," ","o","n","l","y"," ","t","h","e"," ","r","e","s","u","l",
         "t",","," ","n","o"," ","e","x","p","l","a","n","a","t","i","o","n","s",".">>>>
    }

PRIORITY_EXPANSIONS ==
    {
     <<<<"s","p","e","e","d">>,
       <<"O","p","t","i","m","i","z","e"," ","f","o","r"," ","s","p","e","e","d","/","p","e",
         "r","f","o","r","m","a","n","c","e",".">>>>,
     <<<<"f","a","s","t">>,
       <<"O","p","t","i","m","i","z","e"," ","f","o","r"," ","s","p","e","e","d",".">>>>,
     <<<<"p","e","r","f","o","r","m","a","n","c","e">>,
       <<"P","r","i","o","r","i","t","i","z","e"," ","p","e","r","f","o","r","m","a","n","c",
         "e",".">>>>,
     <<<<"q","u","a","l","i","t","y">>,
       <<"P","r","i","o","r","i","t","i","z","e"," ","q","u","a","l","i","t","y"," ","o","v",
         "e","r"," ","s","p","e","e","d",".">>>>,
     <<<<"r","e","a","d","a","b","l","e">>,
       <<"P","r","i","o","r","i","t","i","z","e"," ","r","e","a","d","a","b","i","l","i","t",
         "y",".">>>>,
     <<<<"c","l","a","r","i","t","y">>,
       <<"P","r","i","o","r","i","t","i","z","e"," ","c","l","a","r","i","t","y",".">>>>,
     <<<<"s","e","c","u","r","i","t","y">>,
       <<"F","o","c","u","s"," ","o","n"," ","s","e","c","u","r","i","t","y",".">>>>,
     <<<<"m","e","m","o","r","y">>,
       <<"O","p","t","i","m","i","z","e"," ","f","o","r"," ","m","e","m","o","r","y"," ","e",
         "f","f","i","c","i","e","n","c","y",".">>>>,
     <<<<"c","r","e","a","t","i","v","e">>,
       <<"P","r","i","o","r","i","t","i","z","e"," ","c","r","e","a","t","i","v","i","t","y",
         ".">>>>,
     <<<<"a","c","c","u","r","a","c","y">>,
       <<"P","r","i","o","r","i","t","i","z","e"," ","a","c","c","u","r","a","c","y",".">>>>,
     <<<<"s","e","o">>,
       <<"O","p","t","i","m","i","z","e"," ","f","o","r"," ","S","E","O",".">>>>,
     <<<<"e","n","g","a","g","e","m","e","n","t">>,
       <<"O","p","t","i","m","i","z","e"," ","f","o","r"," ","e","n","g","a","g","e","m","e",
         "n","t",".">>>>,
     <<<<"c","o","n","v","e","r","s","i","o","n">>,
       <<"O","p","t","i","m","i","z","e"," ","f","o","r"," ","c","o","n","v","e","r","s","i",
         "o","n",".">>>>,
     <<<<"c","i","n","e","m","a","t","i","c">>,
       <<"U","s","e"," ","c","i","n","e","m","a","t","i","c"," ","c","o","m","p","o","s","i",
         "t","i","o","n"," ","a","n","d"," ","l","i","g","h","t","i","n","g",".">>>>,
     <<<<"d","e","t","a","i","l","e","d">>,
       <<"I","n","c","l","u","d","e"," ","r","i","c","h"," ","d","e","t","a","i","l","s",".">>>>,
     <<<<"v","i","b","r","a","n","t">>,
       <<"U","s","e"," ","v","i","b","r","a","n","t"," ","c","o","l","o","r","s",".">>>>
    }

AVOID_EXPANSIONS ==
    {
     <<<<"v","e","r","b","o","s","e">>,
       <<"A","v","o","i","d"," ","b","e","i","n","g"," ","v","e","r","b","o","s","e",".">>>>,
     <<<<"t","e","c","h","n","i","c","a","l">>,
       <<"A","v","o","i","d"," ","t","e","c","h","n","i","c","a","l"," ","j","a","r","g","o",
         "n",".">>>>,
     <<<<"j","a","r","g","o","n">>,
       <<"A","v","o","i","d"," ","j","a","r","g","o","n",".">>>>,
     <<<<"e","m","o","j","i">>,
       <<"D","o"," ","n","o","t"," ","u","s","e"," ","e","m","o","j","i","s",".">>>>,
     <<<<"t","e","x","t">>,
       <<"D","o"," ","n","o","t"," ","i","n","c","l","u","d","e"," ","t","e","x","t"," ","i",
         "n"," ","t","h","e"," ","i","m","a","g","e",".">>>>,
     <<<<"g","e","n","e","r","i","c">>,
       <<"A","v","o","i","d"," ","g","e","n","e","r","i","c"," ","o","r"," ","c","l","i","c",
         "h","é"," ","a","p","p","r","o","a","c","h","e","s",".">>>>,
     <<<<"b","o","r","i","n","g">>,
       <<"D","o","n","'","t"," ","b","e"," ","b","o","r","i","n","g",".">>>>,
     <<<<"r","e","p","e","t","i","t","i","v","e">>,
       <<"A","v","o","i","d"," ","r","e","p","e","t","i","t","i","o","n",".">>>>,
     <<<<"c","o","m","p","l","e","x">>,
       <<"A","v","o","i","d"," ","u","n","n","e","c","e","s","s","a","r","y"," ","c","o","m",
         "p","l","e","x","i","t","y",".">>>>,
     <<<<"d","e","p","s">>,
       <<"A","v","o","i","d"," ","e","x","t","e","r","n","a","l"," ","d","e","p","e","n","d",
         "e","n","c","i","e","s",".">>>>,
     <<<<"o","f","f","e","n","s","i","v","e">>,
       <<"A","v","o","i","d"," ","o","f","f","e","n","s","i","v","e"," ","c","o","n","t","e",
         "n","t",".">>>>
    }

\* key in table
HasKey(table, key) == \E p \in table : p[1] = key

\* table[key]
Lookup(table, key) == (CHOOSE p \in table : p[1] = key)[2]

\* c.lower() and c.upper() for one character
lower_char(c) ==
    IF c \in Range(Upper) THEN Lower[CHOOSE i \in DOMAIN Upper : Upper[i] = c] ELSE c
upper_char(c) ==
    IF c \in Range(Lower) THEN Upper[CHOOSE i \in DOMAIN Lower : Lower[i] = c] ELSE c

\* str.lower()
lower(s) == [i \in 1..Len(s) |-> lower_char(s[i])]

\* str.capitalize()
capitalize(s) == [i \in 1..Len(s) |-> IF i = 1 THEN upper_char(s[i]) ELSE lower_char(s[i])]

\* str.isdigit()
isdigit(s) == s # <<>> /\ \A i \in 1..Len(s) : s[i] \in Digits

\* str.replace(old, new) for a non-empty old: the leftmost occurrence is replaced and
\* the search resumes after it
RECURSIVE replace(_, _, _)
replace(s, old, new) ==
    LET hits == {i \in 1..Len(s) : StartsAt(s, i, old)} IN
    IF hits = {} THEN s
    ELSE LET first == CHOOSE i \in hits : \A j \in hits : i <= j IN
         SubSeq(s, 1, first - 1) \o new \o replace(Drop(s, first + Len(old) - 1), old, new)

TXT_SUBJECT_FIELD == <<"{","s","u","b","j","e","c","t","}">>
TXT_SPACE_SUBJECT_FIELD == <<" ","{","s","u","b","j","e","c","t","}">>
TXT_YOU_ARE == <<"Y","o","u"," ","a","r","e"," ">>
TXT_USE == <<"U","s","e"," ">>
TXT_TRANSLATE_TO == <<"T","r","a","n","s","l","a","t","e"," ","t","o"," ">>
TXT_STYLE == <<"S","t","y","l","e",":"," ">>
TXT_PROVIDE == <<"P","r","o","v","i","d","e"," ">>
TXT_ITEMS == <<" ","i","t","e","m","s",".">>
TXT_FORMAT == <<"F","o","r","m","a","t",":"," ">>
TXT_UNDER == <<"u","n","d","e","r","_">>
TXT_KEEP_IT_UNDER == <<"K","e","e","p"," ","i","t"," ","u","n","d","e","r"," ">>
TXT_CHARACTERS == <<" ","c","h","a","r","a","c","t","e","r","s",".">>
TXT_MUST_BE == <<"M","u","s","t"," ","b","e"," ">>
TXT_IF_POSSIBLE == <<"I","f"," ","p","o","s","s","i","b","l","e",","," ">>
TXT_OPTIONALLY == <<"O","p","t","i","o","n","a","l","l","y",","," ","m","a","k","e"," ","i","t"," ">>
TXT_PRIORITIZE == <<"P","r","i","o","r","i","t","i","z","e"," ">>
TXT_AVOID == <<"A","v","o","i","d"," ">>
TXT_ALSO_PROVIDE == <<"A","l","s","o"," ","p","r","o","v","i","d","e",":"," ">>
TXT_THEN == <<"T","h","e","n",","," ">>
PERIOD == <<".">>
SPACE == <<" ">>

CODE_ACTIONS == {<<"c","o","d","e">>, <<"c","o","n","v","e","r","t">>, <<"q","u","e","r","y">>}
TRANSLATE == <<"t","r","a","n","s","l","a","t","e">>
IMG == <<"i","m","g">>

\* the loop of lines 171-172 over variables.items(): one replace per binding, in
\* the order of the dict
RECURSIVE Substitute(_, _)
Substitute(subject, variables) ==
    IF variables = <<>> THEN subject
    ELSE Substitute(replace(subject, <<"{">> \o variables[1][1] \o <<"}">>, variables[1][2]),
                    Tail(variables))

\* lines 167-174: the base sentence
BaseSentence(node, variables) ==
    LET template == IF HasKey(ACTION_TEMPLATES, node.action)
                    THEN Lookup(ACTION_TEMPLATES, node.action)
                    ELSE capitalize(node.action) \o TXT_SPACE_SUBJECT_FIELD
        subject  == Substitute(node.subject, variables)
    IN  IF subject # <<>> THEN replace(template, TXT_SUBJECT_FIELD, subject)
        ELSE replace(template, TXT_SPACE_SUBJECT_FIELD, <<>>)

\* lines 179-188: the sentence of one specifier
SpecifierSentence(node, spec) ==
    IF node.action \in CODE_ACTIONS THEN TXT_USE \o spec \o PERIOD
    ELSE IF node.action = TRANSLATE THEN TXT_TRANSLATE_TO \o spec \o PERIOD
    ELSE IF node.action = IMG THEN TXT_STYLE \o spec \o PERIOD
    ELSE IF isdigit(spec) THEN TXT_PROVIDE \o spec \o TXT_ITEMS
    ELSE TXT_FORMAT \o spec \o PERIOD

\* lines 192-198
MustSentence(mod) ==
    IF HasKey(MUST_EXPANSIONS, mod) THEN Lookup(MUST_EXPANSIONS, mod)
    ELSE IF StartsAt(mod, 1, TXT_UNDER)
    THEN TXT_KEEP_IT_UNDER \o replace(mod, TXT_UNDER, <<>>) \o TXT_CHARACTERS
    ELSE TXT_MUST_BE \o mod \o PERIOD

\* lines 202-205
MaybeSentence(mod) ==
    IF HasKey(MUST_EXPANSIONS, mod) THEN TXT_IF_POSSIBLE \o lower(Lookup(MUST_EXPANSIONS, mod))
    ELSE TXT_OPTIONALLY \o mod \o PERIOD

\* lines 209-212
PrioritySentence(mod) ==
    IF HasKey(PRIORITY_EXPANSIONS, mod) THEN Lookup(PRIORITY_EXPANSIONS, mod)
    ELSE TXT_PRIORITIZE \o mod \o PERIOD

\* lines 216-219
AvoidSentence(mod) ==
    IF HasKey(AVOID_EXPANSIONS, mod) THEN Lookup(AVOID_EXPANSIONS, mod)
    ELSE TXT_AVOID \o mod \o PERIOD

\* the parts with the avoid sentences ahead of the must sentences
PartsOfAvoidFirst(node, variables) ==
    (IF node.persona # None /\ node.persona[1] # <<>>
     THEN <<TXT_YOU_ARE \o node.persona[1] \o PERIOD>> ELSE <<>>)
      \o <<BaseSentence(node, variables)>>
      \o [k \in 1..Len(node.specifiers) |-> SpecifierSentence(node, node.specifiers[k])]
      \o [k \in 1..Len(node.avoid) |-> AvoidSentence(node.avoid[k])]
      \o [k \in 1..Len(node.must) |-> MustSentence(node.must[k])]
      \o [k \in 1..Len(node.maybe) |-> MaybeSentence(node.maybe[k])]
      \o [k \in 1..Len(node.priority) |-> PrioritySentence(node.priority[k])]
      \o (IF node.parallel # <<>>
          THEN <<TXT_ALSO_PROVIDE \o join(COMMA_SPACE, node.parallel) \o PERIOD>> ELSE <<>>)

\* the list parts, before the sentence of the chain is appended
PartsOf(node, variables) ==
    (IF node.persona # None /\ node.persona[1] # <<>>
     THEN <<TXT_YOU_ARE \o node.persona[1] \o PERIOD>> ELSE <<>>)
      \o <<BaseSentence(node, variables)>>
      \o [k \in 1..Len(node.specifiers) |-> SpecifierSentence(node, node.specifiers[k])]
      \o [k \in 1..Len(node.must) |-> MustSentence(node.must[k])]
      \o [k \in 1..Len(node.maybe) |-> MaybeSentence(node.maybe[k])]
      \o [k \in 1..Len(node.priority) |-> PrioritySentence(node.priority[k])]
      \o [k \in 1..Len(node.avoid) |-> AvoidSentence(node.avoid[k])]
      \o (IF node.parallel # <<>>
          THEN <<TXT_ALSO_PROVIDE \o join(COMMA_SPACE, node.parallel) \o PERIOD>> ELSE <<>>)

\* lines 225-228: "Then, " and the chain's prompt with its first character lower-cased
ChainSentence(chain_prompt) ==
    TXT_THEN \o <<lower_char(chain_prompt[1])>> \o Drop(chain_prompt, 1)

RECURSIVE _transpile_parts(_, _)
_transpile_parts(node, variables) ==
    PartsOf(node, variables)
      \o (IF node.chain # None
          THEN <<ChainSentence(join(SPACE, _transpile_parts(node.chain[1], variables)))>>
          ELSE <<>>)

_transpile_ast(node, variables) == join(SPACE, _transpile_parts(node, variables))

(***************************************************************************)
(* transpile(command, **variables): parse, then render with the keyword     *)
(* arguments, which the dict keeps in the order the caller supplied them.  *)
(***************************************************************************)
RenderAlphabet ==
    {<<"w", "r", "i", "t", "e">>,
     <<"z", "a", "p">>,
     <<" ", "{", "a", "}">>,
     <<" ", QUOTE, "{", "a", "}", "{", "b", "}", QUOTE>>,
     <<" ", "!", "s", "h", "o", "r", "t">>,
     <<" ", "[", "3", "]">>,
     <<" ", "&", " ", "t">>,
     <<" ", ">", " ">>}

BindingNames == {<<"a">>, <<"b">>}
BindingValues == {<<"x">>, <<"{", "a", "}">>, <<"{", "b", "}">>, <<>>}

TypeRender == Type(RenderAlphabet, MaxRenderToks)

\* the caller supplies one more keyword argument
Bind ==
    /\ pc = "parsed"
    /\ ~IsError(ast)
    /\ \E name \in BindingNames, value \in BindingValues :
          /\ \A k \in 1..Len(bindings) : bindings[k][1] # name
          /\ bindings' = Append(bindings, <<name, value>>)
    /\ UNCHANGED <<toks, cmd, pc, parts, ast, warnings, prompt>>
    /\ UNCHANGED contractVars
    /\ UNCHANGED <<callVars, objectVars>>

Call_transpile ==
    /\ pc = "parsed"
    /\ ~IsError(ast)
    /\ prompt' = _transpile_ast(ast, bindings)
    /\ pc' = "rendered"
    /\ UNCHANGED <<toks, cmd, parts, ast, warnings, bindings>>
    /\ UNCHANGED contractVars
    /\ UNCHANGED <<callVars, objectVars>>

InitRender == InitWith({ExamplePersona})
NextRender == TypeRender \/ Call_parse \/ Bind \/ Call_transpile
SpecRender == InitRender /\ [][NextRender]_vars

\* the same name-to-value pairs, supplied in any order
Orderings(pairs) ==
    {o \in [1..Len(pairs) -> Range(pairs)] : Range(o) = Range(pairs)}

\* C10: the rendering is a function of the AST and of the bindings as a
\* name-to-value mapping: the same pairs supplied in another order give the
\* identical string.
C10_RenderingIgnoresBindingOrder ==
    pc = "rendered" =>
        \A other \in Orderings(bindings) : _transpile_ast(ast, other) = prompt

(***************************************************************************)
(* The rendering sentence by sentence: transpile on commands that carry    *)
(* every kind of part, with the keyword arguments fixed by the caller.     *)
(***************************************************************************)
PromptAlphabet ==
    {<<"w", "r", "i", "t", "e">>,
     <<"z", "a", "p">>,
     <<" ", "{", "a", "}">>,
     <<" ", "[", "3", "]">>,
     <<" ", "!", "s", "h", "o", "r", "t">>,
     <<" ", "_", "y">>,
     <<" ", "&", " ", "t">>,
     <<" ", ">", " ">>}

\* transpile(command) and transpile(command, a="x")
PromptBindings == {<<>>, <<<<<<"a">>, <<"x">>>>>>}

TypePrompt == Type(PromptAlphabet, MaxPromptToks)

InitPrompt ==
    /\ toks \in {<<>>} \cup {<<e>> : e \in {ExampleDocstring, ExampleTextChain,
                                             ExampleAnalysisChain, ExamplePersonaModifiers}}
    /\ cmd = Flatten(toks)
    /\ pc = "input"
    /\ parts = <<>>
    /\ ast = NoResult
    /\ warnings = <<>>
    /\ bindings \in PromptBindings
    /\ prompt = <<>>
    /\ ContractIdle
    /\ CoreIdle

NextPrompt == TypePrompt \/ Call_parse \/ Call_transpile
SpecPrompt == InitPrompt /\ [][NextPrompt]_vars

\* the sentences the rendering of a node is made of, group by group
ExpectedParts(node, variables) ==
    (IF node.persona # None THEN <<TXT_YOU_ARE \o node.persona[1] \o PERIOD>> ELSE <<>>)
      \o <<BaseSentence(node, variables)>>
      \o [k \in 1..Len(node.specifiers) |-> SpecifierSentence(node, node.specifiers[k])]
      \o [k \in 1..Len(node.must) |-> MustSentence(node.must[k])]
      \o [k \in 1..Len(node.maybe) |-> MaybeSentence(node.maybe[k])]
      \o [k \in 1..Len(node.priority) |-> PrioritySentence(node.priority[k])]
      \o [k \in 1..Len(node.avoid) |-> AvoidSentence(node.avoid[k])]
      \o (IF node.parallel # <<>>
          THEN <<TXT_ALSO_PROVIDE \o join(COMMA_SPACE, node.parallel) \o PERIOD>> ELSE <<>>)
      \o (IF node.chain # None
          THEN <<ChainSentence(_transpile_ast(node.chain[1], variables))>> ELSE <<>>)

ExpectedCount(node) ==
    1 + Len(node.specifiers) + Len(node.must) + Len(node.maybe)
      + Len(node.priority) + Len(node.avoid)
      + (IF node.persona # None THEN 1 ELSE 0)
      + (IF node.parallel # <<>> THEN 1 ELSE 0)
      + (IF node.chain # None THEN 1 ELSE 0)

\* C11: the prompt of every node of the parsed command is the single-space join
\* of the persona sentence (iff persona is set), the base sentence, the
\* sentences of the specifiers, must, maybe, priority and avoid modifiers in
\* parse order, the parallel sentence (iff parallel is non-empty) and the chain
\* sentence (iff chain is present), and the number of parts is
\* 1 + |specifiers| + |must| + |maybe| + |priority| + |avoid| plus one for each
\* of persona, parallel and chain that is present.
C11_PromptIsJoinOfPartsInOrder ==
    pc = "rendered" =>
        /\ prompt = join(SPACE, ExpectedParts(ast, bindings))
        /\ \A k \in 1..Len(ChainNodes(ast)) :
              LET node == ChainNodes(ast)[k] IN
              /\ _transpile_ast(node, bindings) = join(SPACE, ExpectedParts(node, bindings))
              /\ Len(_transpile_parts(node, bindings)) = ExpectedCount(node)

\* a command with persona, must and priority modifiers was rendered in four parts
C11_Witness ==
    /\ pc = "rendered"
    /\ ast.persona # None
    /\ ast.must # <<>>
    /\ ast.priority # <<>>
    /\ Len(_transpile_parts(ast, bindings)) = 4

EndsWith(s, suffix) ==
    /\ Len(s) >= Len(suffix)
    /\ SubSeq(s, Len(s) - Len(suffix) + 1, Len(s)) = suffix

\* C12: when chain is present, the rendering ends with "Then, ", the rendering
\* of the chain node under the same bindings with its first character
\* lower-cased, and a period; that sentence is the last part.
C12_ChainSentenceIsLastAndEndsWithPeriod ==
    (pc = "rendered" /\ ast.chain # None) =>
        LET rendered == _transpile_ast(ast.chain[1], bindings)
            sentence == TXT_THEN \o <<lower_char(rendered[1])>> \o Drop(rendered, 1) \o PERIOD
            ps       == _transpile_parts(ast, bindings)
        IN  /\ ps[Len(ps)] = sentence
            /\ EndsWith(prompt, sentence)

\* Write email. Maintain a professional tone. Keep it concise and brief.
\* (transpiler.py:149, the documented result)
ExampleDocstringPrompt ==
    <<"W", "r", "i", "t", "e", " ", "e", "m", "a", "i", "l", ".", " ", "M", "a", "i",
      "n", "t", "a", "i", "n", " ", "a", " ", "p", "r", "o", "f", "e", "s", "s", "i",
      "o", "n", "a", "l", " ", "t", "o", "n", "e", ".", " ", "K", "e", "e", "p", " ",
      "i", "t", " ", "c", "o", "n", "c", "i", "s", "e", " ", "a", "n", "d", " ", "b",
      "r", "i", "e", "f", ".">>

\* C13: every sentence of a rendered prompt ends with a period, the base
\* sentence included, and the documented example renders as documented.
C13_EverySentenceEndsWithPeriod ==
    pc = "rendered" =>
        /\ \A k \in 1..Len(_transpile_parts(ast, bindings)) :
              EndsWith(_transpile_parts(ast, bindings)[k], PERIOD)
        /\ cmd = ExampleDocstring => prompt = ExampleDocstringPrompt

(***************************************************************************)
(* The output contracts of contracts.py.                                   *)
(*                                                                         *)
(* A Python value is a record of one shape.  t is the type; s holds the    *)
(* text of a str; n holds an int, a bool as 1 or 0, and a float as twice   *)
(* its value (the floats of the model are the multiples of one half, which *)
(* binary floating point represents exactly); items holds the elements of  *)
(* a list, and for a dict its [key, val] entries in insertion order.       *)
(***************************************************************************)
PyStr(s) == [t |-> "str", s |-> s, n |-> 0, items |-> <<>>]
PyInt(n) == [t |-> "int", s |-> <<>>, n |-> n, items |-> <<>>]
PyFloat(twice) == [t |-> "float", s |-> <<>>, n |-> twice, items |-> <<>>]
PyBool(b) == [t |-> "bool", s |-> <<>>, n |-> IF b THEN 1 ELSE 0, items |-> <<>>]
PyNone == [t |-> "NoneType", s |-> <<>>, n |-> 0, items |-> <<>>]
PyList(items) == [t |-> "list", s |-> <<>>, n |-> 0, items |-> items]
PyDict(items) == [t |-> "dict", s |-> <<>>, n |-> 0, items |-> items]

\* what a call returned, or the exception it raised; a ContractError carries
\* which of the four raise statements of parse_response raised it and the field
\* it names
Returned(v) == [ok |-> TRUE, value |-> v, error |-> "", kind |-> "", field |-> <<>>]
Raised(e) == [ok |-> FALSE, value |-> PyNone, error |-> e, kind |-> "", field |-> <<>>]
ContractError(kind, name) ==
    [ok |-> FALSE, value |-> PyNone, error |-> "ContractError", kind |-> kind, field |-> name]

\* key in data, data[key] and data[key] = v for a dict
DictHas(data, key) == \E k \in 1..Len(data.items) : data.items[k].key = key
DictGet(data, key) ==
    data.items[CHOOSE k \in 1..Len(data.items) : data.items[k].key = key].val
DictSet(data, key, v) ==
    IF DictHas(data, key)
    THEN PyDict([k \in 1..Len(data.items) |->
                    IF data.items[k].key = key THEN [key |-> key, val |-> v]
                    ELSE data.items[k]])
    ELSE PyDict(Append(data.items, [key |-> key, val |-> v]))

DigitChars == <<"0","1","2","3","4","5","6","7","8","9">>
DigitValue(c) == (CHOOSE k \in 1..10 : DigitChars[k] = c) - 1

\* the decimal text of an int
RECURSIVE NatText(_)
NatText(n) ==
    IF n < 10 THEN <<DigitChars[n + 1]>> ELSE NatText(n \div 10) \o <<DigitChars[(n % 10) + 1]>>
IntText(n) == IF n < 0 THEN <<"-">> \o NatText(0 - n) ELSE NatText(n)

\* the value of a run of digits
RECURSIVE DigitsValue(_)
DigitsValue(ds) ==
    IF ds = <<>> THEN 0
    ELSE 10 * DigitsValue(SubSeq(ds, 1, Len(ds) - 1)) + DigitValue(ds[Len(ds)])

\* the length of the run of digits from position i
RECURSIVE DigitRun(_, _)
DigitRun(s, i) == IF i <= Len(s) /\ s[i] \in Digits THEN 1 + DigitRun(s, i + 1) ELSE 0

\* a float as text: repr(2.5) = '2.5', repr(-0.5) = '-0.5', repr(3.0) = '3.0'
FloatText(twice) ==
    LET mag == IF twice < 0 THEN 0 - twice ELSE twice IN
    (IF twice < 0 THEN <<"-">> ELSE <<>>)
      \o NatText(mag \div 2) \o <<".">> \o (IF mag % 2 = 1 THEN <<"5">> ELSE <<"0">>)

\* twice the value of the fraction digits, to the resolution of the model
HalvesOf(frac) == IF frac # <<>> /\ DigitValue(frac[1]) >= 5 THEN 1 ELSE 0

\* int(value): ints, bools and floats (truncated toward zero) convert; a str
\* converts when, stripped, it is an optional sign and a run of digits; anything
\* else raises ValueError (a str) or TypeError
int(value) ==
    IF value.t \in {"int", "bool"} THEN Returned(PyInt(value.n))
    ELSE IF value.t = "float"
    THEN Returned(PyInt(IF value.n < 0 THEN 0 - ((0 - value.n) \div 2) ELSE value.n \div 2))
    ELSE IF value.t = "str"
    THEN LET txt    == strip(value.s)
             signed == txt # <<>> /\ txt[1] \in {"-", "+"}
             ds     == IF signed THEN Tail(txt) ELSE txt
         IN  IF isdigit(ds)
             THEN Returned(PyInt(IF signed /\ txt[1] = "-" THEN 0 - DigitsValue(ds)
                                 ELSE DigitsValue(ds)))
             ELSE Raised("ValueError")
    ELSE Raised("TypeError")

\* float(value): as int(value), and a str may carry a fraction: digits with an
\* optional point ("2.5", "2.", ".5")
float(value) ==
    IF value.t \in {"int", "bool"} THEN Returned(PyFloat(2 * value.n))
    ELSE IF value.t = "float" THEN Returned(value)
    ELSE IF value.t = "str"
    THEN LET txt    == strip(value.s)
             signed == txt # <<>> /\ txt[1] \in {"-", "+"}
             body   == IF signed THEN Tail(txt) ELSE txt
             whole  == Take(body, DigitRun(body, 1))
             after  == Drop(body, Len(whole))
             frac   == IF after # <<>> /\ after[1] = "." THEN Tail(after) ELSE <<>>
             wellformed ==
                 /\ (after = <<>> \/ (after[1] = "." /\ isdigit(frac)) \/ after = <<".">>)
                 /\ (whole # <<>> \/ frac # <<>>)
             mag    == 2 * DigitsValue(whole) + HalvesOf(frac)
         IN  IF wellformed
             THEN Returned(PyFloat(IF signed /\ txt[1] = "-" THEN 0 - mag ELSE mag))
             ELSE Raised("ValueError")
    ELSE Raised("TypeError")

\* bool(value): the truth value
bool(value) ==
    IF value.t \in {"int", "bool", "float"} THEN value.n # 0
    ELSE IF value.t = "str" THEN value.s # <<>>
    ELSE IF value.t = "NoneType" THEN FALSE
    ELSE value.items # <<>>

\* one character of a str inside repr
repr_char(c) ==
    IF c = "\n" THEN <<BACKSLASH, "n">>
    ELSE IF c = "\t" THEN <<BACKSLASH, "t">>
    ELSE IF c = BACKSLASH THEN <<BACKSLASH, BACKSLASH>>
    ELSE <<c>>

\* repr(value) and str(value); the texts of the model hold no single quote, so
\* repr encloses a str in single quotes
RECURSIVE repr(_)
repr(value) ==
    IF value.t = "str"
    THEN <<"'">> \o Flatten([k \in 1..Len(value.s) |-> repr_char(value.s[k])]) \o <<"'">>
    ELSE IF value.t = "int" THEN IntText(value.n)
    ELSE IF value.t = "float" THEN FloatText(value.n)
    ELSE IF value.t = "bool" THEN (IF value.n = 1 THEN <<"T","r","u","e">>
                                   ELSE <<"F","a","l","s","e">>)
    ELSE IF value.t = "NoneType" THEN <<"N","o","n","e">>
    ELSE IF value.t = "list"
    THEN <<"[">> \o join(<<",", " ">>, [k \in 1..Len(value.items) |-> repr(value.items[k])])
               \o <<"]">>
    ELSE <<"{">> \o join(<<",", " ">>,
                        [k \in 1..Len(value.items) |->
                            <<"'">> \o value.items[k].key \o <<"'", ":", " ">>
                               \o repr(value.items[k].val)])
               \o <<"}">>

str(value) == IF value.t = "str" THEN value.s ELSE repr(value)

(***************************************************************************)
(* json.loads, as the decoder of the standard library scans: a value is    *)
(* decoded from position i and the position after it is returned.  The     *)
(* numbers of the model carry no exponent.                                 *)
(***************************************************************************)
NEWLINE == "\n"
JSON_WHITESPACE == {" ", "\t", "\n", "\r"}

RECURSIVE SkipWs(_, _)
SkipWs(s, i) == IF i <= Len(s) /\ s[i] \in JSON_WHITESPACE THEN SkipWs(s, i + 1) ELSE i

Decoded(v, end) == [ok |-> TRUE, value |-> v, end |-> end]
JSONDecodeError == [ok |-> FALSE, value |-> PyNone, end |-> 0]

\* the characters of a string literal from position i (after the opening quote):
\* up to the closing quote, with the escapes \" \\ \/ \n \t; a raw control
\* character is an error
RECURSIVE json_string(_, _, _)
json_string(s, i, acc) ==
    IF i > Len(s) THEN JSONDecodeError
    ELSE IF s[i] = QUOTE THEN Decoded(PyStr(acc), i + 1)
    ELSE IF s[i] \in {"\n", "\t", "\r"} THEN JSONDecodeError
    ELSE IF s[i] = BACKSLASH
    THEN IF i + 1 > Len(s) THEN JSONDecodeError
         ELSE IF s[i + 1] \in {QUOTE, BACKSLASH, "/"}
         THEN json_string(s, i + 2, Append(acc, s[i + 1]))
         ELSE IF s[i + 1] = "n" THEN json_string(s, i + 2, Append(acc, "\n"))
         ELSE IF s[i + 1] = "t" THEN json_string(s, i + 2, Append(acc, "\t"))
         ELSE JSONDecodeError
    ELSE json_string(s, i + 1, Append(acc, s[i]))

\* (-?(?:0|[1-9]\d*))(\.\d+)? at position i
json_number(s, i) ==
    LET neg   == i <= Len(s) /\ s[i] = "-"
        j     == IF neg THEN i + 1 ELSE i
        run   == IF j <= Len(s) /\ s[j] = "0" THEN 1
                 ELSE DigitRun(s, j)
        k     == j + run
        fracn == IF k <= Len(s) /\ s[k] = "." THEN DigitRun(s, k + 1) ELSE 0
        whole == DigitsValue(SubSeq(s, j, k - 1))
        frac  == SubSeq(s, k + 1, k + fracn)
    IN  IF run = 0 THEN JSONDecodeError
        ELSE IF fracn = 0
        THEN Decoded(PyInt(IF neg THEN 0 - whole ELSE whole), k)
        ELSE Decoded(PyFloat(IF neg THEN 0 - (2 * whole + HalvesOf(frac))
                             ELSE 2 * whole + HalvesOf(frac)), k + 1 + fracn)

RECURSIVE json_value(_, _), json_array(_, _, _), json_object(_, _, _)

\* scan_once
json_value(s, i) ==
    IF i > Len(s) THEN JSONDecodeError
    ELSE IF s[i] = QUOTE THEN json_string(s, i + 1, <<>>)
    ELSE IF s[i] = "{"
    THEN LET j == SkipWs(s, i + 1) IN
         IF j <= Len(s) /\ s[j] = "}" THEN Decoded(PyDict(<<>>), j + 1)
         ELSE json_object(s, j, PyDict(<<>>))
    ELSE IF s[i] = "["
    THEN LET j == SkipWs(s, i + 1) IN
         IF j <= Len(s) /\ s[j] = "]" THEN Decoded(PyList(<<>>), j + 1)
         ELSE json_array(s, j, <<>>)
    ELSE IF StartsAt(s, i, <<"n","u","l","l">>) THEN Decoded(PyNone, i + 4)
    ELSE IF StartsAt(s, i, <<"t","r","u","e">>) THEN Decoded(PyBool(TRUE), i + 4)
    ELSE IF StartsAt(s, i, <<"f","a","l","s","e">>) THEN Decoded(PyBool(FALSE), i + 5)
    ELSE json_number(s, i)

\* the elements of an array from position i, the first character of an element
json_array(s, i, acc) ==
    LET element == json_value(s, i) IN
    IF ~element.ok THEN JSONDecodeError
    ELSE LET j == SkipWs(s, element.end) IN
         IF j > Len(s) THEN JSONDecodeError
         ELSE IF s[j] = "]" THEN Decoded(PyList(Append(acc, element.value)), j + 1)
         ELSE IF s[j] = "," THEN json_array(s, SkipWs(s, j + 1), Append(acc, element.value))
         ELSE JSONDecodeError

\* the members of an object from position i, where the quote of a key must stand;
\* a key given twice keeps its first place and takes the later value
json_object(s, i, acc) ==
    IF i > Len(s) \/ s[i] # QUOTE THEN JSONDecodeError
    ELSE LET key == json_string(s, i + 1, <<>>) IN
         IF ~key.ok THEN JSONDecodeError
         ELSE LET c == SkipWs(s, key.end) IN
              IF c > Len(s) \/ s[c] # ":" THEN JSONDecodeError
              ELSE LET member == json_value(s, SkipWs(s, c + 1)) IN
                   IF ~member.ok THEN JSONDecodeError
                   ELSE LET j    == SkipWs(s, member.end)
                            data == DictSet(acc, key.value.s, member.value)
                        IN  IF j > Len(s) THEN JSONDecodeError
                            ELSE IF s[j] = "}" THEN Decoded(data, j + 1)
                            ELSE IF s[j] = "," THEN json_object(s, SkipWs(s, j + 1), data)
                            ELSE JSONDecodeError

\* json.loads(s): one value, surrounded by nothing but whitespace
json_loads(s) ==
    LET decoded == json_value(s, SkipWs(s, 1)) IN
    IF decoded.ok /\ SkipWs(s, decoded.end) > Len(s) THEN Returned(decoded.value)
    ELSE Raised("JSONDecodeError")

(***************************************************************************)
(* The constraint classes.  A constraint is a record of one shape; an      *)
(* attribute a class does not have is None.  The pattern of Str is None    *)
(* throughout, and Float bounds are whole numbers.                         *)
(***************************************************************************)
TypeConstraint ==
    [_type_name |-> "", max |-> None, min |-> None, pattern |-> None, precision |-> None,
     language |-> <<>>, item_type |-> None, min_items |-> None, max_items |-> None,
     exact_items |-> None, inner_type |-> None, choices |-> <<>>]

str_(max, min) == [TypeConstraint EXCEPT !._type_name = "str", !.max = max, !.min = min]
int_(min, max) == [TypeConstraint EXCEPT !._type_name = "int", !.min = min, !.max = max]
float_(min, max, precision) ==
    [TypeConstraint EXCEPT !._type_name = "float", !.min = min, !.max = max,
                           !.precision = precision]
bool_ == [TypeConstraint EXCEPT !._type_name = "bool"]
code(language) == [TypeConstraint EXCEPT !._type_name = "code", !.language = language]
list_(item_type, min, max, exactly) ==
    [TypeConstraint EXCEPT !._type_name = "list", !.item_type = item_type,
                           !.min_items = min, !.max_items = max, !.exact_items = exactly]
optional(inner_type) ==
    [TypeConstraint EXCEPT !._type_name = "optional", !.inner_type = Some(inner_type)]
enum(choices) == [TypeConstraint EXCEPT !._type_name = "enum", !.choices = choices]

\* "if self.max": an attribute that is neither None nor 0
Truthy(attribute) == attribute # None /\ attribute[1] # 0

\* s[:k], also for a negative k
SliceTo(s, k) ==
    IF k >= 0 THEN Take(s, k)
    ELSE IF Len(s) + k > 0 THEN SubSeq(s, 1, Len(s) + k) ELSE <<>>

ELLIPSIS == <<".", ".", ".">>

\* Str.validate, lines 68-77
Str_validate(self, value) ==
    IF value.t # "str" THEN FALSE
    ELSE IF Truthy(self.max) /\ Len(value.s) > self.max[1] THEN FALSE
    ELSE IF Truthy(self.min) /\ Len(value.s) < self.min[1] THEN FALSE
    ELSE TRUE

\* Str.parse, lines 79-83
Str_parse(self, value) ==
    LET s == str(value) IN
    IF Truthy(self.max) /\ Len(s) > self.max[1]
    THEN Returned(PyStr(SliceTo(s, self.max[1] - 3) \o ELLIPSIS))
    ELSE Returned(PyStr(s))

\* Int.validate, lines 105-114
Int_validate(self, value) ==
    LET v == int(value) IN
    IF ~v.ok THEN FALSE
    ELSE IF self.min # None /\ v.value.n < self.min[1] THEN FALSE
    ELSE IF self.max # None /\ v.value.n > self.max[1] THEN FALSE
    ELSE TRUE

\* Int.parse, lines 116-117
Int_parse(self, value) == int(value)

\* Float.validate, lines 136-141
Float_validate(self, value) == float(value).ok

\* Float.parse, lines 143-147: round(v, precision) leaves a multiple of one half
\* as it is for every precision of 1 or more, and precision 0 is not rounded
Float_parse(self, value) == float(value)

BOOL_WORDS ==
    {<<"t","r","u","e">>, <<"f","a","l","s","e">>, <<"y","e","s">>, <<"n","o">>,
     <<"1">>, <<"0">>}
TRUE_WORDS == {<<"t","r","u","e">>, <<"y","e","s">>, <<"1">>}

\* Bool.validate, lines 159-164
Bool_validate(self, value) ==
    IF value.t = "bool" THEN TRUE
    ELSE IF value.t = "str" THEN lower(value.s) \in BOOL_WORDS
    ELSE FALSE

\* Bool.parse, lines 166-171
Bool_parse(self, value) ==
    IF value.t = "bool" THEN Returned(value)
    ELSE IF value.t = "str" THEN Returned(PyBool(lower(value.s) \in TRUE_WORDS))
    ELSE Returned(PyBool(bool(value)))

\* the backquote character, which a TLA+ string cannot hold, under a name
BACKTICK == "backquote"
FENCE == <<BACKTICK, BACKTICK, BACKTICK>>

\* the mutant: the tag after the opening backquotes is left in the text
sub_opening_fence_no_tag(s) ==
    IF StartsAt(s, 1, FENCE)
    THEN Drop(s, 3 + (IF 4 <= Len(s) /\ s[4] = NEWLINE THEN 1 ELSE 0))
    ELSE s

\* re.sub(r"^```\w*\n?", "", s)
sub_opening_fence(s) ==
    IF StartsAt(s, 1, FENCE)
    THEN LET tag  == WordRun(s, 4)
             line == IF 4 + tag <= Len(s) /\ s[4 + tag] = NEWLINE THEN 1 ELSE 0
         IN  Drop(s, 3 + tag + line)
    ELSE s

\* re.sub(r"\n?```$", "", s): $ stands at the end and before a newline that ends
\* the text; the leftmost match is removed
sub_closing_fence(s) ==
    LET n     == Len(s)
        final == IF n > 0 /\ s[n] = NEWLINE THEN 1 ELSE 0       \* the newline $ may precede
        EndsAt(e) == e >= 3 /\ SubSeq(s, e - 2, e) = FENCE      \* a fence ending at e
        Cut(e) == LET b == IF e - 3 >= 1 /\ s[e - 3] = NEWLINE THEN e - 3 ELSE e - 2
                  IN  SubSeq(s, 1, b - 1) \o SubSeq(s, e + 1, n)
    IN  IF final = 1 /\ EndsAt(n - 1) THEN Cut(n - 1)
        ELSE IF EndsAt(n) THEN Cut(n)
        ELSE s

\* Code.validate, lines 185-186
Code_validate(self, value) == value.t = "str"

\* Code.parse, lines 188-193
Code_parse(self, value) ==
    Returned(PyStr(strip(sub_closing_fence(sub_opening_fence(str(value))))))

\* Enum_.validate, lines 283-284
Enum_validate(self, value) == str(value) \in Range(self.choices)

\* Enum_.parse, lines 286-287
Enum_parse(self, value) == Returned(PyStr(str(value)))

RECURSIVE validate_value(_, _), parse_value(_, _)

\* List_.validate, lines 223-234
List_validate(self, value) ==
    IF value.t # "list" THEN FALSE
    ELSE IF Truthy(self.exact_items) /\ Len(value.items) # self.exact_items[1] THEN FALSE
    ELSE IF Truthy(self.min_items) /\ Len(value.items) < self.min_items[1] THEN FALSE
    ELSE IF Truthy(self.max_items) /\ Len(value.items) > self.max_items[1] THEN FALSE
    ELSE IF self.item_type # None
    THEN \A k \in 1..Len(value.items) : validate_value(self.item_type[1], value.items[k])
    ELSE TRUE

\* re.split(r"[\n,]", s)
RECURSIVE split_lines_commas(_)
split_lines_commas(s) ==
    LET hits == {k \in 1..Len(s) : s[k] \in {NEWLINE, ","}} IN
    IF hits = {} THEN <<s>>
    ELSE LET k == CHOOSE h \in hits : \A g \in hits : h <= g IN
         <<SubSeq(s, 1, k - 1)>> \o split_lines_commas(Drop(s, k))

\* what "for item in value" and list(value) go through: the elements of a list,
\* the characters of a str, the keys of a dict; anything else raises TypeError
Iterate(value) ==
    IF value.t = "list" THEN Returned(value)
    ELSE IF value.t = "str" THEN Returned(PyList([k \in 1..Len(value.s) |-> PyStr(<<value.s[k]>>)]))
    ELSE IF value.t = "dict"
    THEN Returned(PyList([k \in 1..Len(value.items) |-> PyStr(value.items[k].key)]))
    ELSE Raised("TypeError")

\* List_.parse, lines 236-247
List_parse(self, value) ==
    LET \* lines 239-243: the decoded text, or its stripped non-empty pieces
        Loaded(decoded, pieces) ==
            IF decoded.ok THEN decoded.value
            ELSE PyList([k \in 1..Len(pieces) |-> PyStr(pieces[k])])
        \* the list of line 246, or the first exception an item raised
        Collected(parsed) ==
            LET failed == {k \in 1..Len(parsed) : ~parsed[k].ok} IN
            IF failed = {}
            THEN Returned(PyList([k \in 1..Len(parsed) |-> parsed[k].value]))
            ELSE parsed[CHOOSE k \in failed : \A g \in failed : k <= g]
        \* lines 245-247
        Items(each) ==
            IF ~each.ok THEN each
            ELSE IF self.item_type # None
            THEN Collected([k \in 1..Len(each.value.items) |->
                               parse_value(self.item_type[1], each.value.items[k])])
            ELSE each
    IN  Items(Iterate(IF value.t # "str" THEN value
                      ELSE Loaded(json_loads(value.s),
                                  StripNonEmpty(split_lines_commas(value.s)))))

\* Optional_.validate, lines 261-264
Optional_validate(self, value) ==
    IF value = PyNone THEN TRUE ELSE validate_value(self.inner_type[1], value)

\* the mutant: the empty text is handed to the inner type
Optional_parse_keeps_empty(self, value) ==
    IF value = PyNone \/ value = PyStr(<<"n","u","l","l">>)
    THEN Returned(PyNone)
    ELSE parse_value(self.inner_type[1], value)

\* Optional_.parse, lines 266-269
Optional_parse(self, value) ==
    IF value = PyNone \/ value = PyStr(<<"n","u","l","l">>) \/ value = PyStr(<<>>)
    THEN Returned(PyNone)
    ELSE parse_value(self.inner_type[1], value)

\* type_constraint.validate(value): the method of the constraint's class
validate_value(self, value) ==
    CASE self._type_name = "str" -> Str_validate(self, value)
      [] self._type_name = "int" -> Int_validate(self, value)
      [] self._type_name = "float" -> Float_validate(self, value)
      [] self._type_name = "bool" -> Bool_validate(self, value)
      [] self._type_name = "code" -> Code_validate(self, value)
      [] self._type_name = "list" -> List_validate(self, value)
      [] self._type_name = "optional" -> Optional_validate(self, value)
      [] self._type_name = "enum" -> Enum_validate(self, value)

\* type_constraint.parse(value)
parse_value(self, value) ==
    CASE self._type_name = "str" -> Str_parse(self, value)
      [] self._type_name = "int" -> Int_parse(self, value)
      [] self._type_name = "float" -> Float_parse(self, value)
      [] self._type_name = "bool" -> Bool_parse(self, value)
      [] self._type_name = "code" -> Code_parse(self, value)
      [] self._type_name = "list" -> List_parse(self, value)
      [] self._type_name = "optional" -> Optional_parse(self, value)
      [] self._type_name = "enum" -> Enum_parse(self, value)

(***************************************************************************)
(* validate and parse of one constraint on one value.  The caller builds   *)
(* the value: a text grows character by character, a list item by item.    *)
(***************************************************************************)
\* no command is in use
CommandIdle ==
    /\ toks = <<>>
    /\ cmd = <<>>
    /\ parts = <<>>
    /\ ast = NoResult
    /\ warnings = <<>>
    /\ bindings = <<>>
    /\ prompt = <<>>

NoOutcome == Raised("not called")

\* an attribute that is None or a number up to the bound
Bounds(most) == {None} \cup {Some(b) : b \in 0..most}

StrTypes == {str_(max, None) : max \in Bounds(MaxStrMax)} \cup {str_(None, Some(2))}
IntTypes == {int_(min, max) : min \in Bounds(MaxBound), max \in Bounds(MaxBound)}
FloatTypes == {float_(min, max, None) : min \in Bounds(MaxBound), max \in Bounds(MaxBound)}
ItemTypes == {None, Some(str_(None, None)), Some(int_(Some(1), None))}
ListTypes ==
    {list_(item, min, max, exactly) :
        item \in ItemTypes, min \in {None}, max \in {None}, exactly \in Bounds(MaxBound)}
      \cup {list_(item, min, None, None) : item \in ItemTypes, min \in Bounds(MaxBound)}
      \cup {list_(item, None, max, None) : item \in ItemTypes, max \in Bounds(MaxBound)}
      \cup {list_(None, Some(1), Some(2), None)}
OtherTypes ==
    {bool_, code(<<"p","y","t","h","o","n">>), enum(<<<<"a">>, <<"1">>>>),
     optional(str_(None, None)), optional(int_(None, None))}

FieldTypes == StrTypes \cup IntTypes \cup FloatTypes \cup ListTypes \cup OtherTypes

\* the values a text or a list is grown from, and the values that are given whole
SeedValues ==
    {PyStr(<<>>), PyStr(<<"-">>), PyStr(<<"2", ".">>), PyList(<<>>), PyNone, PyBool(TRUE),
     PyStr(<<"[", "5", "]">>), PyStr(<<"a", ",">>), PyStr(<<"n", "u", "l", "l">>)}
      \cup {PyInt(n) : n \in -1..(MaxBound + 1)}
      \cup {PyFloat(twice) : twice \in {-1, 1, 5, 2 * MaxBound, 2 * MaxBound + 1}}
TextAlphabet == {"a", "5"}
ItemValues == {PyStr(<<"a">>), PyInt(0), PyInt(1)}

AppendChar ==
    /\ pc = "input"
    /\ given.t = "str"
    /\ Len(given.s) < MaxTextLen
    /\ \E c \in TextAlphabet : given' = PyStr(Append(given.s, c))
    /\ UNCHANGED <<pc, contract, reply, plain, field_type, outcome>>
    /\ UNCHANGED commandVars
    /\ UNCHANGED <<callVars, objectVars>>

AppendItem ==
    /\ pc = "input"
    /\ given.t = "list"
    /\ Len(given.items) < MaxItems
    /\ \E item \in ItemValues : given' = PyList(Append(given.items, item))
    /\ UNCHANGED <<pc, contract, reply, plain, field_type, outcome>>
    /\ UNCHANGED commandVars
    /\ UNCHANGED <<callVars, objectVars>>

Call_constraint_validate ==
    /\ pc = "input"
    /\ outcome' = Returned(PyBool(validate_value(field_type, given)))
    /\ pc' = "value_validated"
    /\ UNCHANGED <<contract, reply, plain, field_type, given>>
    /\ UNCHANGED commandVars
    /\ UNCHANGED <<callVars, objectVars>>

Call_constraint_parse ==
    /\ pc = "input"
    /\ outcome' = parse_value(field_type, given)
    /\ pc' = "value_parsed"
    /\ UNCHANGED <<contract, reply, plain, field_type, given>>
    /\ UNCHANGED commandVars
    /\ UNCHANGED <<callVars, objectVars>>

InitConstraint ==
    /\ CommandIdle
    /\ CoreIdle
    /\ pc = "input"
    /\ contract = <<>>
    /\ reply = <<>>
    /\ plain = None
    /\ field_type \in FieldTypes
    /\ given \in SeedValues
    /\ outcome = NoOutcome

NextConstraint ==
    AppendChar \/ AppendItem \/ Call_constraint_validate \/ Call_constraint_parse
SpecConstraint == InitConstraint /\ [][NextConstraint]_vars

\* C18: for a Str constraint with max = m >= 1, parse of a text longer than m
\* returns its first m-3 characters followed by "...", a text of length exactly
\* m; a text of length at most m is returned unchanged.
C18_StrParseTruncatesToMax ==
    (/\ pc = "value_parsed"
     /\ field_type._type_name = "str"
     /\ field_type.max # None
     /\ given.t = "str") =>
        LET m == field_type.max[1] IN
        m >= 1 =>
            IF Len(given.s) > m
            THEN /\ outcome = Returned(PyStr(Take(given.s, m - 3) \o ELLIPSIS))
                 /\ Len(outcome.value.s) = m
            ELSE outcome = Returned(given)

\* within the bounds that are set; a float of the model is held as twice its value
WithinInt(v, self) ==
    /\ self.min # None => v >= self.min[1]
    /\ self.max # None => v <= self.max[1]
WithinFloat(twice, self) ==
    /\ self.min # None => twice >= 2 * self.min[1]
    /\ self.max # None => twice <= 2 * self.max[1]

\* C19: validate of an Int and of a Float constraint is false for a value that
\* coerces to a number outside [min, max] (either bound may be absent), true
\* for one that coerces to a number within the bounds, and false for a value
\* that does not coerce.
C19_NumberValidateChecksRange ==
    pc = "value_validated" =>
        /\ field_type._type_name = "int" =>
              outcome.value = PyBool(int(given).ok /\ WithinInt(int(given).value.n, field_type))
        /\ field_type._type_name = "float" =>
              outcome.value =
                  PyBool(float(given).ok /\ WithinFloat(float(given).value.n, field_type))

\* C20: validate of a List constraint is true exactly when the value is a
\* list, its length equals exactly when that is set, is at least min and at
\* most max when set, for every bound from 0 on, and every element validates
\* against the item type when one is set.
C20_ListValidateChecksCounts ==
    (pc = "value_validated" /\ field_type._type_name = "list") =>
        outcome.value =
            PyBool(/\ given.t = "list"
                   /\ field_type.exact_items # None =>
                         Len(given.items) = field_type.exact_items[1]
                   /\ field_type.min_items # None =>
                         Len(given.items) >= field_type.min_items[1]
                   /\ field_type.max_items # None =>
                         Len(given.items) <= field_type.max_items[1]
                   /\ field_type.item_type # None =>
                         \A k \in 1..Len(given.items) :
                             validate_value(field_type.item_type[1], given.items[k]))

\* the elements a text stands for: those of the JSON array it decodes to, and
\* for every other text its stripped non-empty pieces between newlines and commas
ElementsOf(text) ==
    LET decoded == json_loads(text)
        pieces  == StripNonEmpty(split_lines_commas(text))
    IN  IF decoded.ok /\ decoded.value.t = "list" THEN decoded.value.items
        ELSE [k \in 1..Len(pieces) |-> PyStr(pieces[k])]

\* C21: List.parse of a text returns the elements of the JSON array the text
\* decodes to, and for every other text (valid JSON that is no array included)
\* its stripped non-empty pieces between newlines and commas, each parsed
\* through the item type when one is set; the result is a list.
C21_ListParseOfTextGivesElementsOrPieces ==
    (pc = "value_parsed" /\ field_type._type_name = "list" /\ given.t = "str") =>
        LET elements == ElementsOf(given.s)
            item     == field_type.item_type
        IN  IF item = None THEN outcome = Returned(PyList(elements))
            ELSE (\A k \in 1..Len(elements) : parse_value(item[1], elements[k]).ok) =>
                    outcome = Returned(PyList([k \in 1..Len(elements) |->
                                                 parse_value(item[1], elements[k]).value]))

\* the values Optional.parse turns into null
NullLike == {PyNone, PyStr(<<"n", "u", "l", "l">>), PyStr(<<>>)}

\* C22: Optional(inner).validate(v) is true exactly when v is null or
\* inner.validate(v) is true; Optional(inner).parse gives null for null, the
\* text null and the empty text, and inner.parse(value) for every other value,
\* so Optional(Str()) gives every other text back as it is.
C22_OptionalValidatesAndParsesThroughInner ==
    field_type._type_name = "optional" =>
        LET inner == field_type.inner_type[1] IN
        /\ pc = "value_validated" =>
              outcome.value = PyBool(given = PyNone \/ validate_value(inner, given))
        /\ pc = "value_parsed" =>
              IF given \in NullLike THEN outcome = Returned(PyNone)
              ELSE /\ outcome = parse_value(inner, given)
                   /\ (inner = str_(None, None) /\ given.t = "str") => outcome = Returned(given)

\* Optional(Str()) has parsed the text null
C22_Witness ==
    /\ pc = "value_parsed"
    /\ field_type = optional(str_(None, None))
    /\ given = PyStr(<<"n", "u", "l", "l">>)
    /\ outcome = Returned(PyNone)

(***************************************************************************)
(* OutputContract.parse_response, lines 373-408.  A schema is the sequence *)
(* of its <<name, constraint>> pairs in insertion order.                   *)
(***************************************************************************)
\* the mutant: the fields are examined from the last one to the first
RECURSIVE parse_fields_last_first(_, _, _, _)
parse_fields_last_first(schema, data, k, result) ==
    IF k > Len(schema) THEN Returned(result)
    ELSE LET name            == schema[Len(schema) + 1 - k][1]
             type_constraint == schema[Len(schema) + 1 - k][2]
         IN  IF ~DictHas(data, name)
             THEN IF type_constraint._type_name = "optional"
                  THEN parse_fields_last_first(schema, data, k + 1,
                                               DictSet(result, name, PyNone))
                  ELSE ContractError("Missing required field", name)
             ELSE IF ~validate_value(type_constraint, DictGet(data, name))
             THEN ContractError("failed validation", name)
             ELSE LET Store(parsed) ==
                          IF ~parsed.ok THEN parsed
                          ELSE parse_fields_last_first(schema, data, k + 1,
                                  DictSet(result, name, parsed.value))
                  IN  Store(parse_value(type_constraint, DictGet(data, name)))

\* the loop of lines 393-406 from field k on
RECURSIVE parse_fields(_, _, _, _)
parse_fields(schema, data, k, result) ==
    IF k > Len(schema) THEN Returned(result)
    ELSE LET name            == schema[k][1]
             type_constraint == schema[k][2]
         IN  IF ~DictHas(data, name)
             THEN IF type_constraint._type_name = "optional"
                  THEN parse_fields(schema, data, k + 1, DictSet(result, name, PyNone))
                  ELSE ContractError("Missing required field", name)
             ELSE IF ~validate_value(type_constraint, DictGet(data, name))
             THEN ContractError("failed validation", name)
             ELSE LET Store(parsed) ==
                          IF ~parsed.ok THEN parsed
                          ELSE parse_fields(schema, data, k + 1,
                                  DictSet(result, name, parsed.value))
                  IN  Store(parse_value(type_constraint, DictGet(data, name)))

\* lines 376-381
strip_fences(response) ==
    LET stripped == strip(response) IN
    IF StartsAt(stripped, 1, FENCE)
    THEN sub_closing_fence(sub_opening_fence(stripped))
    ELSE stripped

\* the mutant: the result starts as a copy of the decoded object
parse_response_keeps_extras(schema, response) ==
    LET data == json_loads(strip_fences(response)) IN
    IF ~data.ok THEN ContractError("Response is not valid JSON", <<>>)
    ELSE IF data.value.t # "dict" THEN ContractError("Response must be a JSON object", <<>>)
    ELSE parse_fields(schema, data.value, 1, data.value)

\* parse_response, lines 373-408
parse_response(schema, response) ==
    LET data == json_loads(strip_fences(response)) IN
    IF ~data.ok THEN ContractError("Response is not valid JSON", <<>>)
    ELSE IF data.value.t # "dict" THEN ContractError("Response must be a JSON object", <<>>)
    ELSE parse_fields(schema, data.value, 1, PyDict(<<>>))

(***************************************************************************)
(* The collaborator answers with a text: a JSON object that gains members, *)
(* or something else; it may wrap its answer in a fenced block.            *)
(***************************************************************************)
NAME_A == <<"a">>
NAME_B == <<"b">>

Schemas ==
    {<<<<NAME_A, int_(Some(0), Some(5))>>, <<NAME_B, str_(Some(3), None)>>>>,
     <<<<NAME_B, str_(None, None)>>, <<NAME_A, int_(None, None)>>>>,
     <<<<NAME_A, optional(int_(None, None))>>,
       <<NAME_B, list_(Some(str_(None, None)), None, Some(0), None)>>>>,
     <<<<NAME_A, enum(<<<<"x">>, <<"1">>>>)>>,
       <<NAME_B, optional(list_(None, None, None, Some(1)))>>>>}

Members ==
    {<<QUOTE, "a", QUOTE, ":", "1">>,
     <<QUOTE, "a", QUOTE, ":", "7">>,
     <<QUOTE, "a", QUOTE, ":", QUOTE, "x", QUOTE>>,
     <<QUOTE, "a", QUOTE, ":", "n", "u", "l", "l">>,
     <<QUOTE, "b", QUOTE, ":", QUOTE, "x", "y", QUOTE>>,
     <<QUOTE, "b", QUOTE, ":", QUOTE, "w", "x", "y", "z", QUOTE>>,
     <<QUOTE, "b", QUOTE, ":", "[", QUOTE, "x", QUOTE, "]">>,
     <<QUOTE, "b", QUOTE, ":", "[", "]">>,
     <<QUOTE, "b", QUOTE, ":", "n", "u", "l", "l">>,
     <<QUOTE, "c", QUOTE, ":", "t", "r", "u", "e">>}

ReplySeeds ==
    {<<"{", "}">>, <<"[", "]">>, <<"5">>, <<>>, <<"{", QUOTE, "a", QUOTE, ":", "1">>,
     <<"n", "o", "t", " ", "j", "s", "o", "n">>}

FenceTags == {<<>>, <<"j", "s", "o", "n">>}
FencePads == {<<>>, <<" ", NEWLINE>>}

IsObjectText(text) == text # <<>> /\ text[1] = "{" /\ text[Len(text)] = "}"
MemberCount(text) == Cardinality({k \in 1..Len(text) : text[k] = ":"})

AddMember ==
    /\ pc = "input"
    /\ plain = None
    /\ IsObjectText(reply)
    /\ MemberCount(reply) < MaxMembers
    /\ \E member \in Members :
          reply' = IF Len(reply) = 2 THEN <<"{">> \o member \o <<"}">>
                   ELSE SubSeq(reply, 1, Len(reply) - 1) \o <<",">> \o member \o <<"}">>
    /\ UNCHANGED <<pc, contract, plain, field_type, given, outcome>>
    /\ UNCHANGED commandVars
    /\ UNCHANGED <<callVars, objectVars>>

WrapInFence ==
    /\ pc = "input"
    /\ plain = None
    /\ \E tag \in FenceTags, pad \in FencePads :
          reply' = pad \o FENCE \o tag \o <<NEWLINE>> \o reply \o <<NEWLINE>> \o FENCE \o pad
    /\ plain' = Some(reply)
    /\ UNCHANGED <<pc, contract, field_type, given, outcome>>
    /\ UNCHANGED commandVars
    /\ UNCHANGED <<callVars, objectVars>>

Call_parse_response ==
    /\ pc = "input"
    /\ outcome' = parse_response(contract, reply)
    /\ pc' = "response_parsed"
    /\ UNCHANGED <<contract, reply, plain, field_type, given>>
    /\ UNCHANGED commandVars
    /\ UNCHANGED <<callVars, objectVars>>

InitContract ==
    /\ CommandIdle
    /\ CoreIdle
    /\ pc = "input"
    /\ contract \in Schemas
    /\ reply \in ReplySeeds
    /\ plain = None
    /\ field_type = <<>>
    /\ given = <<>>
    /\ outcome = NoOutcome

NextContract == AddMember \/ WrapInFence \/ Call_parse_response
SpecContract == InitContract /\ [][NextContract]_vars

\* the JSON text the collaborator produced, without the fenced block around it
Answer == IF plain # None THEN plain[1] ELSE reply

\* what the constraint of a field asks of a value
RECURSIVE Satisfies(_, _)
Satisfies(self, v) ==
    CASE self._type_name = "str" ->
            /\ v.t = "str"
            /\ self.max # None => Len(v.s) <= self.max[1]
            /\ self.min # None => Len(v.s) >= self.min[1]
      [] self._type_name = "int" -> v.t = "int" /\ WithinInt(v.n, self)
      [] self._type_name = "enum" -> v.t = "str" /\ v.s \in Range(self.choices)
      [] self._type_name = "list" ->
            /\ v.t = "list"
            /\ self.exact_items # None => Len(v.items) = self.exact_items[1]
            /\ self.min_items # None => Len(v.items) >= self.min_items[1]
            /\ self.max_items # None => Len(v.items) <= self.max_items[1]
            /\ self.item_type # None =>
                  \A k \in 1..Len(v.items) : Satisfies(self.item_type[1], v.items[k])
      [] self._type_name = "optional" -> v = PyNone \/ Satisfies(self.inner_type[1], v)
      [] OTHER -> TRUE

\* C14: whenever parse_response succeeds, every returned field value
\* satisfies the constraint of its field after coercion: validate of the
\* returned value is true, a Str value has a length between min and max, an
\* Int value lies in the range, an Enum value is one of the choices, a List
\* value meets its count bounds and its elements satisfy the item type, and an
\* Optional value is null or satisfies the inner type.
C14_ReturnedFieldsSatisfyConstraints ==
    (pc = "response_parsed" /\ outcome.ok) =>
        \A k \in 1..Len(contract) :
            LET returned == DictGet(outcome.value, contract[k][1]) IN
            /\ validate_value(contract[k][2], returned)
            /\ Satisfies(contract[k][2], returned)

\* the fields of the schema that are absent without being Optional, or present
\* and not valid
Offending(data) ==
    {k \in 1..Len(contract) :
        IF DictHas(data, contract[k][1])
        THEN ~validate_value(contract[k][2], DictGet(data, contract[k][1]))
        ELSE contract[k][2]._type_name # "optional"}

First(S) == CHOOSE k \in S : \A other \in S : k <= other

C16_ResultHasExactlySchemaKeys ==
    pc = "response_parsed" =>
        LET decoded == json_loads(Answer) IN
        (decoded.ok /\ decoded.value.t = "dict" /\ Offending(decoded.value) = {}) =>
            /\ outcome.ok
            /\ outcome.value.t = "dict"
            /\ [k \in 1..Len(outcome.value.items) |-> outcome.value.items[k].key]
                  = [k \in 1..Len(contract) |-> contract[k][1]]
            /\ \A k \in 1..Len(contract) :
                  ~DictHas(decoded.value, contract[k][1]) =>
                      DictGet(outcome.value, contract[k][1]) = PyNone

\* an object with the key c, which no schema has, and without the Optional field
\* b was parsed into a map with the keys a and b
C16_Witness ==
    /\ pc = "response_parsed"
    /\ outcome.ok
    /\ DictHas(json_loads(Answer).value, <<"c">>)
    /\ ~DictHas(json_loads(Answer).value, NAME_B)
    /\ DictGet(outcome.value, NAME_B) = PyNone
    /\ Len(outcome.value.items) = 2

\* C17: for a JSON object text J, parse_response of J wrapped in a fenced
\* block (three backquotes and an optional tag of word characters on the
\* opening line, three backquotes on the closing line, optional whitespace
\* around) gives what parse_response of J alone gives: the same map or a
\* ContractError of the same kind.
C17_FencedBlockGivesSameOutcome ==
    (/\ pc = "response_parsed"
     /\ plain # None
     /\ json_loads(plain[1]).ok
     /\ json_loads(plain[1]).value.t = "dict") =>
        outcome = parse_response(contract, plain[1])

\* an object in a block tagged json with whitespace around was parsed into a map
C17_Witness ==
    /\ pc = "response_parsed"
    /\ plain # None
    /\ StartsAt(reply, 1, <<" ", NEWLINE>> \o FENCE \o <<"j", "s", "o", "n", NEWLINE>>)
    /\ outcome.ok
    /\ Len(outcome.value.items) = 2

(***************************************************************************)
(* ContractResult, contracts.py lines 417-438.  A dict or a list is an     *)
(* object with an address in the heap: a variable, an attribute or a dict  *)
(* entry that holds one holds a reference to it.                           *)
(***************************************************************************)
Ref(address) == [t |-> "ref", s |-> <<>>, n |-> address, items |-> <<>>]
\* a method bound to the result, which the lookup of a method's name returns
PyMethod(name) == [t |-> "method", s |-> name, n |-> 0, items |-> <<>>]

TO_DICT == <<"t", "o", "_", "d", "i", "c", "t">>
ATTR_DATA == <<"_", "d", "a", "t", "a">>
ATTR_RAW == <<"_", "r", "a", "w">>
\* the names the class body defines besides the two fields (lines 424-438)
CLASS_ATTRIBUTES ==
    {TO_DICT,
     <<"_","_","g","e","t","a","t","t","r","_","_">>,
     <<"_","_","g","e","t","i","t","e","m","_","_">>,
     <<"_","_","r","e","p","r","_","_">>}

\* object.__getattribute__: an attribute of the instance, then one of the class
__getattribute__(self, name) ==
    IF name = ATTR_DATA THEN Returned(self._data)
    ELSE IF name = ATTR_RAW THEN Returned(PyStr(self._raw))
    ELSE IF name \in CLASS_ATTRIBUTES THEN Returned(PyMethod(name))
    ELSE Raised("AttributeError")

\* __getattr__, lines 424-429, on the heap h
__getattr__(h, self, name) ==
    IF StartsAt(name, 1, <<"_">>) THEN __getattribute__(self, name)
    ELSE IF DictHas(h[self._data.n], name) THEN Returned(DictGet(h[self._data.n], name))
    ELSE Raised("AttributeError")

\* result.name: Python calls __getattr__ only when the normal lookup fails
getattr(h, self, name) ==
    IF __getattribute__(self, name).ok THEN __getattribute__(self, name)
    ELSE __getattr__(h, self, name)

\* __getitem__, lines 431-432
__getitem__(h, self, key) ==
    IF DictHas(h[self._data.n], key) THEN Returned(DictGet(h[self._data.n], key))
    ELSE Raised("KeyError")

\* to_dict, lines 434-435: dict.copy() makes a new dict with the same entries
to_dict(h, self) == Append(h, h[self._data.n])

(***************************************************************************)
(* The caller builds a dict, constructs a ContractResult on it, reads      *)
(* fields, takes snapshots and changes the dicts and lists it holds.       *)
(***************************************************************************)
MaxObjects == 3
MaxListLen == 2

FIELD_N == <<"n">>
FIELD_X == <<"_", "x">>
FieldNames == {FIELD_N, FIELD_X, TO_DICT, ATTR_DATA}
AccessNames == FieldNames \cup {<<"m">>, ATTR_RAW}
Entry(key, val) == [key |-> key, val |-> val]

\* the heaps the caller starts from: one dict at address 1, which may hold the
\* list at address 2
SeedHeaps ==
    {<<PyDict(<<>>)>>}
      \cup {<<PyDict(<<Entry(name, PyInt(1))>>)>> : name \in FieldNames}
      \cup {<<PyDict(<<Entry(FIELD_N, Ref(2))>>), PyList(<<PyInt(1)>>)>>,
            <<PyDict(<<Entry(FIELD_N, PyInt(1)), Entry(FIELD_X, Ref(2))>>), PyList(<<>>)>>}

Constructed == contract_result # None

\* ContractResult(_data=d, _raw=...): the dataclass keeps the reference it is given
Call_ContractResult ==
    /\ pc = "input"
    /\ \E address \in held :
          contract_result' = Some([_data |-> Ref(address), _raw |-> <<"r">>])
    /\ pc' = "constructed"
    /\ UNCHANGED <<heap, held, given, outcome>>
    /\ UNCHANGED <<contract, reply, plain, field_type>>
    /\ UNCHANGED <<commandVars, callVars>>

Call_getattr ==
    /\ Constructed
    /\ \E name \in AccessNames :
          /\ given' = PyStr(name)
          /\ outcome' = getattr(heap, contract_result[1], name)
    /\ pc' = "getattr"
    /\ UNCHANGED <<heap, held, contract_result>>
    /\ UNCHANGED <<contract, reply, plain, field_type>>
    /\ UNCHANGED <<commandVars, callVars>>

Call_getitem ==
    /\ Constructed
    /\ \E key \in AccessNames :
          /\ given' = PyStr(key)
          /\ outcome' = __getitem__(heap, contract_result[1], key)
    /\ pc' = "getitem"
    /\ UNCHANGED <<heap, held, contract_result>>
    /\ UNCHANGED <<contract, reply, plain, field_type>>
    /\ UNCHANGED <<commandVars, callVars>>

Call_to_dict ==
    /\ Constructed
    /\ Len(heap) < MaxObjects
    /\ heap' = to_dict(heap, contract_result[1])
    /\ held' = held \cup {Len(heap) + 1}
    /\ outcome' = Returned(Ref(Len(heap) + 1))
    /\ pc' = "to_dict"
    /\ UNCHANGED <<contract_result, given>>
    /\ UNCHANGED <<contract, reply, plain, field_type>>
    /\ UNCHANGED <<commandVars, callVars>>

\* d[key] = 2 on a dict the caller holds
CallerSetsItem ==
    /\ Constructed
    /\ \E address \in held, key \in {FIELD_N, <<"m">>} :
          heap' = [heap EXCEPT ![address] = DictSet(heap[address], key, PyInt(2))]
    /\ pc' = "caller_set_item"
    /\ UNCHANGED <<held, contract_result, given, outcome>>
    /\ UNCHANGED <<contract, reply, plain, field_type>>
    /\ UNCHANGED <<commandVars, callVars>>

\* d[key].append(2) on a list in a dict the caller holds
CallerAppendsToList ==
    /\ Constructed
    /\ \E address \in held : \E k \in 1..Len(heap[address].items) :
          LET val == heap[address].items[k].val IN
          /\ val.t = "ref"
          /\ Len(heap[val.n].items) < MaxListLen
          /\ heap' = [heap EXCEPT ![val.n] = PyList(Append(heap[val.n].items, PyInt(2)))]
    /\ pc' = "caller_appended"
    /\ UNCHANGED <<held, contract_result, given, outcome>>
    /\ UNCHANGED <<contract, reply, plain, field_type>>
    /\ UNCHANGED <<commandVars, callVars>>

InitResult ==
    /\ CommandIdle
    /\ pc = "input"
    /\ contract = <<>>
    /\ reply = <<>>
    /\ plain = None
    /\ field_type = <<>>
    /\ given = PyNone
    /\ outcome = NoOutcome
    /\ question = <<>>
    /\ voice = <<>>
    /\ returns = <<>>
    /\ commands = <<>>
    /\ index = 0
    /\ current_vars = <<>>
    /\ last_result = <<>>
    /\ calls = <<>>
    /\ heap \in SeedHeaps
    /\ held = {1}
    /\ contract_result = None

NextResult ==
    \/ Call_ContractResult
    \/ Call_getattr
    \/ Call_getitem
    \/ Call_to_dict
    \/ CallerSetsItem
    \/ CallerAppendsToList
SpecResult == InitResult /\ [][NextResult]_vars

\* the field map of the result
FieldMap == heap[contract_result[1]._data.n]

\* C23: when the name is a key of the field map, attribute access returns that
\* field's value, the value item access returns; when it is no key, attribute
\* access raises AttributeError.  For every name, those that start with an
\* underscore or equal to_dict included.
C23_AttributeAccessReturnsFieldOrRaises ==
    pc = "getattr" =>
        IF DictHas(FieldMap, given.s)
        THEN /\ outcome = Returned(DictGet(FieldMap, given.s))
             /\ outcome = __getitem__(heap, contract_result[1], given.s)
        ELSE outcome = Raised("AttributeError")

\* the fields of the result as later accesses return them, a list by its elements
Fields ==
    [k \in 1..Len(FieldMap.items) |->
        LET val == FieldMap.items[k].val IN
        Entry(FieldMap.items[k].key, IF val.t = "ref" THEN heap[val.n] ELSE val)]

\* C24: once a ContractResult is constructed, no step of the caller (changing
\* the map to_dict returned or a list in it, changing the map handed to the
\* constructor) changes a field of the result.
C24_FieldsNeverChangeAfterConstruction ==
    [][Constructed => Fields' = Fields]_vars

(***************************************************************************)
(* The reverse transpiler: to_ailang, transpiler.py lines 233-326.         *)
(***************************************************************************)
\* the keys of ACTION_TEMPLATES in the order of the dict (lines 10-70)
ACTION_KEYS ==
    <<<<"w", "r", "i", "t", "e">>, <<"r", "e", "w", "r", "i", "t", "e">>,
      <<"s", "u", "m", "m", "a", "r", "i", "z", "e">>,
      <<"e", "x", "p", "a", "n", "d">>,
      <<"t", "r", "a", "n", "s", "l", "a", "t", "e">>,
      <<"e", "x", "p", "l", "a", "i", "n">>, <<"l", "i", "s", "t">>,
      <<"c", "o", "m", "p", "a", "r", "e">>, <<"r", "e", "p", "l", "y">>,
      <<"t", "i", "t", "l", "e">>, <<"i", "m", "g">>, <<"l", "o", "g", "o">>,
      <<"i", "c", "o", "n">>, <<"d", "i", "a", "g", "r", "a", "m">>,
      <<"m", "o", "c", "k", "u", "p">>, <<"c", "o", "d", "e">>, <<"f", "i", "x">>,
      <<"r", "e", "f", "a", "c", "t", "o", "r">>, <<"t", "e", "s", "t">>,
      <<"r", "e", "v", "i", "e", "w">>, <<"c", "o", "n", "v", "e", "r", "t">>,
      <<"a", "p", "i">>, <<"q", "u", "e", "r", "y">>, <<"r", "e", "g", "e", "x">>,
      <<"d", "o", "c", "s">>, <<"a", "n", "a", "l", "y", "z", "e">>,
      <<"e", "v", "a", "l", "u", "a", "t", "e">>,
      <<"p", "r", "e", "d", "i", "c", "t">>,
      <<"d", "i", "a", "g", "n", "o", "s", "e">>,
      <<"r", "e", "c", "o", "m", "m", "e", "n", "d">>, <<"r", "a", "n", "k">>,
      <<"v", "e", "r", "i", "f", "y">>, <<"e", "x", "t", "r", "a", "c", "t">>,
      <<"c", "l", "a", "s", "s", "i", "f", "y">>,
      <<"s", "e", "n", "t", "i", "m", "e", "n", "t">>,
      <<"b", "r", "a", "i", "n", "s", "t", "o", "r", "m">>, <<"n", "a", "m", "e">>,
      <<"s", "t", "o", "r", "y">>, <<"j", "o", "k", "e">>, <<"p", "o", "e", "m">>,
      <<"s", "c", "r", "i", "p", "t">>, <<"p", "i", "t", "c", "h">>,
      <<"s", "l", "o", "g", "a", "n">>, <<"r", "e", "c", "i", "p", "e">>,
      <<"p", "l", "a", "y", "l", "i", "s", "t">>, <<"f", "o", "r", "m", "a", "t">>,
      <<"m", "e", "r", "g", "e">>, <<"s", "p", "l", "i", "t">>,
      <<"f", "i", "l", "t", "e", "r">>, <<"s", "o", "r", "t">>,
      <<"d", "e", "d", "u", "p", "e">>, <<"v", "a", "l", "i", "d", "a", "t", "e">>,
      <<"p", "a", "r", "s", "e">>>>

\* sub in s
Contains(s, sub) == \E i \in 1..(Len(s) + 1 - Len(sub)) : StartsAt(s, i, sub)

Least(S) == CHOOSE i \in S : \A j \in S : i <= j

\* the mutant: no action is the default
detect_action_no_default(prompt_lower) ==
    LET hits == {k \in 1..Len(ACTION_KEYS) :
                    \/ Contains(prompt_lower, ACTION_KEYS[k])
                    \/ Contains(prompt_lower, ACTION_KEYS[k] \o <<"e">>)
                    \/ Contains(prompt_lower, ACTION_KEYS[k] \o <<"i", "n", "g">>)}
    IN  IF hits = {} THEN <<>> ELSE ACTION_KEYS[Least(hits)]

\* lines 248-254: the first key that occurs bare, with -e or with -ing
detect_action(prompt_lower) ==
    LET hits == {k \in 1..Len(ACTION_KEYS) :
                    \/ Contains(prompt_lower, ACTION_KEYS[k])
                    \/ Contains(prompt_lower, ACTION_KEYS[k] \o <<"e">>)
                    \/ Contains(prompt_lower, ACTION_KEYS[k] \o <<"i", "n", "g">>)}
    IN  IF hits = {} THEN <<"w", "r", "i", "t", "e">> ELSE ACTION_KEYS[Least(hits)]

\* re.search(r'"([^"]+)"', s): the group of the leftmost match, if any
quoted_subject(s) ==
    LET opens == {i \in 1..Len(s) :
                     /\ s[i] = QUOTE
                     /\ i + 1 <= Len(s) /\ s[i + 1] # QUOTE
                     /\ \E j \in (i + 2)..Len(s) : s[j] = QUOTE}
    IN  IF opens = {} THEN None
        ELSE Some(SubSeq(s, Least(opens) + 1,
                         Least({j \in (Least(opens) + 2)..Len(s) : s[j] = QUOTE}) - 1))

\* (?:\.|,|$) at position p; $ stands at the end and before a newline that ends s
Terminates(s, p) ==
    \/ p <= Len(s) /\ s[p] \in {".", ","}
    \/ p = Len(s) + 1
    \/ p = Len(s) /\ s[p] = NEWLINE

\* (.+?)(?:\.|,|$) from position r: the last position of the shortest group, 0
\* when there is none (. matches no newline)
GroupEnd(s, r) ==
    LET ends == {e \in r..Len(s) :
                    /\ \A x \in r..e : s[x] # NEWLINE
                    /\ Terminates(s, e + 1)}
    IN  IF ends = {} THEN 0 ELSE Least(ends)

\* \s+(?:a\s+)? from position q: the positions where the group may start, in
\* the order the matcher tries them (each run longest first, the optional part
\* first with it and then without)
GroupStarts(s, q) ==
    Flatten([tried \in 1..SpaceRun(s, q) |->
                LET at     == q + SpaceRun(s, q) + 1 - tried
                    spaces == IF at <= Len(s) /\ s[at] = "a" THEN SpaceRun(s, at + 1) ELSE 0
                IN  [after \in 1..spaces |-> at + 1 + spaces + 1 - after] \o <<at>>])

\* re.search(r"(?:w1|w2|...)\s+(?:a\s+)?(.+?)(?:\.|,|$)", s): the group of the
\* leftmost match, if any
pattern_subject(s, words) ==
    LET Group(p, w) ==
            LET starts == GroupStarts(s, p + Len(w))
                good   == {k \in 1..Len(starts) : GroupEnd(s, starts[k]) # 0}
            IN  IF good = {} THEN None
                ELSE Some(SubSeq(s, starts[Least(good)], GroupEnd(s, starts[Least(good)])))
        hits == {p \in 1..Len(s) : \E k \in 1..Len(words) :
                    StartsAt(s, p, words[k]) /\ Group(p, words[k]) # None}
        Word(p) == words[Least({k \in 1..Len(words) :
                                   StartsAt(s, p, words[k]) /\ Group(p, words[k]) # None})]
    IN  IF hits = {} THEN None ELSE Group(Least(hits), Word(Least(hits)))

ABOUT_WORDS == <<<<"a", "b", "o", "u", "t">>, <<"f", "o", "r">>, <<"o", "f">>, <<"o", "n">>>>
WRITE_WORDS ==
    <<<<"w", "r", "i", "t", "e">>, <<"c", "r", "e", "a", "t", "e">>,
      <<"g", "e", "n", "e", "r", "a", "t", "e">>, <<"m", "a", "k", "e">>>>

\* lines 256-272
extract_subject(text, prompt_lower) ==
    IF quoted_subject(text) # None THEN quoted_subject(text)[1]
    ELSE IF pattern_subject(prompt_lower, ABOUT_WORDS) # None
    THEN strip(pattern_subject(prompt_lower, ABOUT_WORDS)[1])
    ELSE IF pattern_subject(prompt_lower, WRITE_WORDS) # None
    THEN strip(pattern_subject(prompt_lower, WRITE_WORDS)[1])
    ELSE <<>>

\* re.search(r"(?:k1|k2|...)\s+(\w+)", s): the group of the leftmost match, if any
keyword_word(s, keywords) ==
    LET After(p, kw) == p + Len(kw) + SpaceRun(s, p + Len(kw))
        Matches(p, kw) ==
            /\ StartsAt(s, p, kw)
            /\ SpaceRun(s, p + Len(kw)) >= 1
            /\ WordRun(s, After(p, kw)) >= 1
        hits == {p \in 1..Len(s) : \E k \in 1..Len(keywords) : Matches(p, keywords[k])}
        Keyword(p) == keywords[Least({k \in 1..Len(keywords) : Matches(p, keywords[k])})]
        Word(p, kw) == SubSeq(s, After(p, kw), After(p, kw) + WordRun(s, After(p, kw)) - 1)
    IN  IF hits = {} THEN None ELSE Some(Word(Least(hits), Keyword(Least(hits))))

\* lines 278-287: the modifier and its keywords, in the order of the dict
must_keywords ==
    <<<<<<"s", "h", "o", "r", "t">>,
        <<<<"s", "h", "o", "r", "t">>, <<"b", "r", "i", "e", "f">>,
          <<"c", "o", "n", "c", "i", "s", "e">>>>>>,
      <<<<"d", "e", "t", "a", "i", "l", "e", "d">>,
        <<<<"d", "e", "t", "a", "i", "l", "e", "d">>,
          <<"c", "o", "m", "p", "r", "e", "h", "e", "n", "s", "i", "v", "e">>,
          <<"t", "h", "o", "r", "o", "u", "g", "h">>>>>>,
      <<<<"p", "r", "o", "f", "e", "s", "s", "i", "o", "n", "a", "l">>,
        <<<<"p", "r", "o", "f", "e", "s", "s", "i", "o", "n", "a", "l">>>>>>,
      <<<<"f", "o", "r", "m", "a", "l">>,
        <<<<"f", "o", "r", "m", "a", "l">>>>>>,
      <<<<"c", "a", "s", "u", "a", "l">>,
        <<<<"c", "a", "s", "u", "a", "l">>, <<"i", "n", "f", "o", "r", "m", "a", "l">>>>>>,
      <<<<"s", "i", "m", "p", "l", "e">>,
        <<<<"s", "i", "m", "p", "l", "e">>,
          <<"e", "a", "s", "y", " ", "t", "o", " ", "u", "n", "d", "e", "r", "s", "t", "a", "n", "d">>,
          <<"e", "l", "i", "5">>>>>>,
      <<<<"e", "x", "a", "m", "p", "l", "e", "s">>,
        <<<<"e", "x", "a", "m", "p", "l", "e">>,
          <<"e", "x", "a", "m", "p", "l", "e", "s">>>>>>,
      <<<<"t", "y", "p", "e", "d">>,
        <<<<"t", "y", "p", "e", " ", "h", "i", "n", "t">>, <<"t", "y", "p", "e", "d">>,
          <<"t", "y", "p", "e", " ", "a", "n", "n", "o", "t", "a", "t", "i", "o", "n">>>>>>>>

PRIORITY_KEYWORDS == <<<<"f", "o", "c", "u", "s", " ", "o", "n">>, <<"p", "r", "i", "o", "r", "i", "t", "i", "z", "e">>>>

avoid_patterns == <<<<"d", "o", "n", "'", "t">>, <<"d", "o", " ", "n", "o", "t">>, <<"a", "v", "o", "i", "d">>, <<"n", "o", " ">>>>

languages ==
    <<<<"p", "y", "t", "h", "o", "n">>,
      <<"j", "a", "v", "a", "s", "c", "r", "i", "p", "t">>,
      <<"t", "y", "p", "e", "s", "c", "r", "i", "p", "t">>, <<"r", "u", "s", "t">>,
      <<"g", "o">>, <<"j", "a", "v", "a">>, <<"r", "u", "b", "y">>, <<"c", "+", "+">>,
      <<"c", "#">>>>

formats ==
    <<<<"j", "s", "o", "n">>, <<"c", "s", "v">>, <<"x", "m", "l">>,
      <<"y", "a", "m", "l">>, <<"m", "a", "r", "k", "d", "o", "w", "n">>,
      <<"h", "t", "m", "l">>>>


\* the members of list whose flag is set, in order
RECURSIVE SelectFrom(_, _)
SelectFrom(list, flags) ==
    IF list = <<>> THEN <<>>
    ELSE (IF flags[1] THEN <<list[1]>> ELSE <<>>) \o SelectFrom(Tail(list), Tail(flags))

\* lines 288-290
must_modifiers(prompt_lower) ==
    LET Occurs(entry) == \E k \in 1..Len(entry[2]) : Contains(prompt_lower, entry[2][k])
        found == SelectFrom(must_keywords, [k \in 1..Len(must_keywords) |-> Occurs(must_keywords[k])])
    IN  [k \in 1..Len(found) |-> <<"!">> \o found[k][1]]

\* lines 292-296
priority_modifiers(prompt_lower) ==
    IF /\ \E k \in 1..Len(PRIORITY_KEYWORDS) : Contains(prompt_lower, PRIORITY_KEYWORDS[k])
       /\ keyword_word(prompt_lower, PRIORITY_KEYWORDS) # None
    THEN <<<<"^">> \o keyword_word(prompt_lower, PRIORITY_KEYWORDS)[1]>>
    ELSE <<>>

\* lines 298-303
avoid_modifiers(prompt_lower) ==
    LET Found(pattern) ==
            /\ Contains(prompt_lower, pattern)
            /\ keyword_word(prompt_lower, <<pattern>>) # None
        found == SelectFrom(avoid_patterns,
                            [k \in 1..Len(avoid_patterns) |-> Found(avoid_patterns[k])])
    IN  [k \in 1..Len(found) |-> <<"_">> \o keyword_word(prompt_lower, <<found[k]>>)[1]]

\* lines 306-317: the first name of the list that occurs, in brackets
first_specifier(prompt_lower, names) ==
    LET hits == {k \in 1..Len(names) : Contains(prompt_lower, names[k])} IN
    IF hits = {} THEN <<>> ELSE <<<<"[">> \o names[Least(hits)] \o <<"]">>>>

\* lines 319-326
build_command(action, subject, specs, modifiers) ==
    join(<<" ">>,
         <<action>> \o (IF subject # <<>> THEN <<<<QUOTE>> \o subject \o <<QUOTE>>>> ELSE <<>>)
                    \o specs \o modifiers)

to_ailang(text) ==
    build_command(detect_action(lower(text)),
                  extract_subject(text, lower(text)),
                  first_specifier(lower(text), languages) \o first_specifier(lower(text), formats),
                  must_modifiers(lower(text)) \o priority_modifiers(lower(text))
                      \o avoid_modifiers(lower(text)))

(***************************************************************************)
(* to_ailang on the texts a caller types piece by piece, and on the texts  *)
(* that consist of one key of ACTION_TEMPLATES.                            *)
(***************************************************************************)
MaxReverseToks == 3

ReverseAlphabet ==
    {<<"n", "o", " ">>, <<"a", "v", "o", "i", "d">>, <<"d", "o", "n", "'", "t">>,
     <<"d", "o", " ", "n", "o", "t">>, <<" ", "x">>, <<"z", "a", "p">>, <<QUOTE>>,
     <<"a", "b", "o", "u", "t", " ">>, <<"S", "o", "r", "t", " ">>,
     <<"f", "o", "c", "u", "s", " ", "o", "n">>}

\* the caller types one more piece of the natural-language text
TypeWords ==
    /\ pc = "input"
    /\ Len(toks) < MaxReverseToks
    /\ \E t \in ReverseAlphabet :
          /\ toks' = Append(toks, t)
          /\ prompt' = prompt \o t
    /\ UNCHANGED <<pc, cmd, parts, ast, warnings, bindings>>
    /\ UNCHANGED contractVars
    /\ UNCHANGED <<callVars, objectVars>>

Call_to_ailang ==
    /\ pc = "input"
    /\ cmd' = to_ailang(prompt)
    /\ pc' = "to_ailang"
    /\ UNCHANGED <<toks, prompt, parts, ast, warnings, bindings>>
    /\ UNCHANGED contractVars
    /\ UNCHANGED <<callVars, objectVars>>

InitReverse ==
    /\ toks = <<>>
    /\ cmd = <<>>
    /\ pc = "input"
    /\ parts = <<>>
    /\ ast = NoResult
    /\ warnings = <<>>
    /\ bindings = <<>>
    /\ prompt = <<>>
    /\ ContractIdle
    /\ CoreIdle

NextReverse == TypeWords \/ Call_to_ailang
SpecReverse == InitReverse /\ [][NextReverse]_vars

InitVocabulary ==
    /\ toks = <<>>
    /\ cmd = <<>>
    /\ pc = "input"
    /\ parts = <<>>
    /\ ast = NoResult
    /\ warnings = <<>>
    /\ bindings = <<>>
    /\ prompt \in Range(ACTION_KEYS)
    /\ ContractIdle
    /\ CoreIdle

NextVocabulary == Call_to_ailang
SpecVocabulary == InitVocabulary /\ [][NextVocabulary]_vars

\* the first of the tokens a command has between its spaces
FirstToken(command) == split(command, " ")[1]

\* every word list to_ailang looks for, in one set
REVERSE_VOCABULARY ==
    Range(ACTION_KEYS) \cup Range(ABOUT_WORDS) \cup Range(WRITE_WORDS)
      \cup UNION {Range(must_keywords[k][2]) : k \in 1..Len(must_keywords)}
      \cup Range(PRIORITY_KEYWORDS) \cup Range(avoid_patterns)
      \cup Range(languages) \cup Range(formats)

\* none of them occurs in the lower-cased text, and no text stands between quotes
NothingOccurs(text) ==
    /\ \A word \in REVERSE_VOCABULARY : ~Contains(lower(text), word)
    /\ ~\E i, j \in 1..Len(text) : i + 1 < j /\ text[i] = QUOTE /\ text[j] = QUOTE

\* C25: to_ailang returns a string for every text, the empty text and a text
\* with unbalanced quotes included; the first space-separated token of the
\* string is a key of ACTION_TEMPLATES; when no word of the vocabulary and no
\* quoted text occurs in the input the string is exactly write.
C25_ToAilangIsTotalAndDefaultsToWrite ==
    pc = "to_ailang" =>
        /\ cmd \in Seq(Range(Lower) \cup Range(Upper) \cup Digits
                          \cup {" ", QUOTE, "'", "_", "!", "^", "[", "]", "+", "#"})
        /\ FirstToken(cmd) \in Range(ACTION_KEYS)
        /\ NothingOccurs(prompt) => cmd = <<"w", "r", "i", "t", "e">>

\* a text with one quote and nothing of the vocabulary gave write
C25_Witness ==
    /\ pc = "to_ailang"
    /\ Cardinality({i \in 1..Len(prompt) : prompt[i] = QUOTE}) = 1
    /\ Len(prompt) > 1
    /\ NothingOccurs(prompt)
    /\ cmd = <<"w", "r", "i", "t", "e">>

\* the words that follow the keyword in s: the keyword (without the space it
\* may end with), whitespace, a run of word characters
WordsAfter(s, keyword) ==
    {SubSeq(s, p + Len(rstrip(keyword)) + SpaceRun(s, p + Len(rstrip(keyword))),
            p + Len(rstrip(keyword)) + SpaceRun(s, p + Len(rstrip(keyword)))
              + WordRun(s, p + Len(rstrip(keyword)) + SpaceRun(s, p + Len(rstrip(keyword)))) - 1) :
        p \in {q \in 1..Len(s) :
                  /\ StartsAt(s, q, rstrip(keyword))
                  /\ SpaceRun(s, q + Len(rstrip(keyword))) >= 1
                  /\ WordRun(s, q + Len(rstrip(keyword))
                                  + SpaceRun(s, q + Len(rstrip(keyword)))) >= 1}}

\* C26: when the lower-cased input holds one of the keywords don't, do not,
\* avoid, "no " followed by a word, the output holds the _-modifier of a word
\* that follows that keyword (no jargon gives _jargon).
C26_AvoidKeywordGivesModifier ==
    pc = "to_ailang" =>
        \A k \in 1..Len(avoid_patterns) :
            WordsAfter(lower(prompt), avoid_patterns[k]) # {} =>
                \E word \in WordsAfter(lower(prompt), avoid_patterns[k]) :
                    Contains(cmd, <<"_">> \o word)

\* C30: for every key a of ACTION_TEMPLATES, to_ailang of the text a returns a
\* command whose action is a.
C30_EveryActionCanBeSelected ==
    (pc = "to_ailang" /\ prompt \in Range(ACTION_KEYS)) => FirstToken(cmd) = prompt

(***************************************************************************)
(* The prompt text of a contract: to_prompt of each constraint and         *)
(* OutputContract.to_prompt_instructions, contracts.py.                    *)
(***************************************************************************)
\* f"({before}{number}{after})"
Parenthesised(before, number, after) ==
    <<"(">> \o before \o IntText(number) \o after \o <<")">>

RECURSIVE to_prompt(_)
to_prompt(self) ==
    IF self._type_name = "str"
    THEN join(SPACE,
            <<<<"t", "e", "x", "t">>>>
              \o (IF Truthy(self.max)
                  THEN <<Parenthesised(<<"m", "a", "x", "i", "m", "u", "m", " ">>, self.max[1],
                                       <<" ", "c", "h", "a", "r", "a", "c", "t", "e", "r", "s">>)>>
                  ELSE <<>>)
              \o (IF Truthy(self.min)
                  THEN <<Parenthesised(<<"m", "i", "n", "i", "m", "u", "m", " ">>, self.min[1],
                                       <<" ", "c", "h", "a", "r", "a", "c", "t", "e", "r", "s">>)>>
                  ELSE <<>>))
    ELSE IF self._type_name = "int"
    THEN join(SPACE,
            <<<<"i", "n", "t", "e", "g", "e", "r", " ", "n", "u", "m", "b", "e", "r">>>>
              \o (IF self.min # None /\ self.max # None
                  THEN <<Parenthesised(<<"b", "e", "t", "w", "e", "e", "n", " ">>, self.min[1],
                                       <<" ", "a", "n", "d", " ">> \o IntText(self.max[1]))>>
                  ELSE IF self.min # None
                  THEN <<Parenthesised(<<"m", "i", "n", "i", "m", "u", "m", " ">>, self.min[1], <<>>)>>
                  ELSE IF self.max # None
                  THEN <<Parenthesised(<<"m", "a", "x", "i", "m", "u", "m", " ">>, self.max[1], <<>>)>>
                  ELSE <<>>))
    ELSE IF self._type_name = "float"
    THEN join(SPACE,
            <<<<"d", "e", "c", "i", "m", "a", "l", " ", "n", "u", "m", "b", "e", "r">>>>
              \o (IF Truthy(self.precision)
                  THEN <<Parenthesised(<<"t", "o", " ">>, self.precision[1],
                                       <<" ", "d", "e", "c", "i", "m", "a", "l", " ", "p", "l", "a", "c", "e", "s">>)>>
                  ELSE <<>>))
    ELSE IF self._type_name = "bool"
    THEN <<"b", "o", "o", "l", "e", "a", "n", " ", "(", "t", "r", "u", "e", "/", "f", "a", "l", "s", "e", ")">>
    ELSE IF self._type_name = "code"
    THEN <<"c", "o", "d", "e", " ", "i", "n", " ">> \o self.language
           \o <<" ", "(", "j", "u", "s", "t", " ", "t", "h", "e", " ", "c", "o", "d", "e", ",", " ", "n", "o", " ", "m", "a", "r", "k", "d", "o", "w", "n", " ", "f", "e", "n", "c", "e", "s", ")">>
    ELSE IF self._type_name = "list"
    THEN join(SPACE,
            <<<<"l", "i", "s", "t">>>>
              \o (IF Truthy(self.exact_items)
                  THEN <<<<"o", "f", " ", "e", "x", "a", "c", "t", "l", "y", " ">> \o IntText(self.exact_items[1]) \o <<" ", "i", "t", "e", "m", "s">>>>
                  ELSE IF Truthy(self.min_items) /\ Truthy(self.max_items)
                  THEN <<<<"o", "f", " ">> \o IntText(self.min_items[1]) \o <<"-">>
                           \o IntText(self.max_items[1]) \o <<" ", "i", "t", "e", "m", "s">>>>
                  ELSE IF Truthy(self.min_items)
                  THEN <<<<"o", "f", " ", "a", "t", " ", "l", "e", "a", "s", "t", " ">> \o IntText(self.min_items[1]) \o <<" ", "i", "t", "e", "m", "s">>>>
                  ELSE IF Truthy(self.max_items)
                  THEN <<<<"o", "f", " ", "a", "t", " ", "m", "o", "s", "t", " ">> \o IntText(self.max_items[1]) \o <<" ", "i", "t", "e", "m", "s">>>>
                  ELSE <<>>)
              \o (IF self.item_type # None
                  THEN <<<<"w", "h", "e", "r", "e", " ", "e", "a", "c", "h", " ", "i", "t", "e", "m", " ", "i", "s", " ">>
                           \o to_prompt(self.item_type[1])>>
                  ELSE <<>>))
    ELSE IF self._type_name = "optional"
    THEN to_prompt(self.inner_type[1])
           \o <<" ", "(", "o", "r", " ", "n", "u", "l", "l", " ", "i", "f", " ", "n", "o", "t", " ", "a", "p", "p", "l", "i", "c", "a", "b", "l", "e", ")">>
    ELSE <<"o", "n", "e", " ", "o", "f", ":", " ">> \o join(COMMA_SPACE, self.choices)

\* f'- "{name}": {type_constraint.to_prompt()}'
FieldLine(name, type_constraint) ==
    <<"-", " ", QUOTE>> \o name \o <<QUOTE, ":", " ">> \o to_prompt(type_constraint)

TXT_RESPOND_WITH ==
    <<"R", "e", "s", "p", "o", "n", "d", " ", "w", "i", "t", "h", " ", "a", " ", "J",
      "S", "O", "N", " ", "o", "b", "j", "e", "c", "t", " ", "c", "o", "n", "t", "a",
      "i", "n", "i", "n", "g", " ", "e", "x", "a", "c", "t", "l", "y", " ", "t", "h",
      "e", "s", "e", " ", "f", "i", "e", "l", "d", "s", ":">>
TXT_RETURN_ONLY ==
    <<"R", "e", "t", "u", "r", "n", " ", "O", "N", "L", "Y", " ", "t", "h", "e", " ",
      "J", "S", "O", "N", " ", "o", "b", "j", "e", "c", "t", ",", " ", "n", "o", " ",
      "o", "t", "h", "e", "r", " ", "t", "e", "x", "t", " ", "o", "r", " ", "m", "a",
      "r", "k", "d", "o", "w", "n", ".">>

\* to_prompt_instructions, lines 364-371
to_prompt_instructions(schema) ==
    join(<<NEWLINE>>,
         <<TXT_RESPOND_WITH, <<>>>>
           \o [k \in 1..Len(schema) |-> FieldLine(schema[k][1], schema[k][2])]
           \o <<<<>>, TXT_RETURN_ONLY>>)

(***************************************************************************)
(* AILANG.ask_async, core.py lines 256-309.  The coroutine runs from one   *)
(* await of provider.complete to the next; the provider answers each call  *)
(* with a text of its choice, or raises.                                   *)
(***************************************************************************)
\* lines 271-278
voice_instructions ==
    {<<<<"c", "a", "s", "u", "a", "l">>,
       <<"U", "s", "e", " ", "a", " ", "c", "a", "s", "u", "a", "l", ",", " ", "f", "r", "i", "e", "n", "d", "l", "y", " ", "t", "o", "n", "e", ".">>>>,
     <<<<"f", "o", "r", "m", "a", "l">>,
       <<"U", "s", "e", " ", "a", " ", "f", "o", "r", "m", "a", "l", ",", " ", "p", "r", "o", "f", "e", "s", "s", "i", "o", "n", "a", "l", " ", "t", "o", "n", "e", ".">>>>,
     <<<<"t", "e", "c", "h", "n", "i", "c", "a", "l">>,
       <<"U", "s", "e", " ", "t", "e", "c", "h", "n", "i", "c", "a", "l", " ", "l", "a", "n", "g", "u", "a", "g", "e", " ", "a", "p", "p", "r", "o", "p", "r", "i", "a", "t", "e", " ", "f", "o", "r", " ", "e", "x", "p", "e", "r", "t", "s", ".">>>>,
     <<<<"s", "i", "m", "p", "l", "e">>,
       <<"U", "s", "e", " ", "s", "i", "m", "p", "l", "e", " ", "l", "a", "n", "g", "u", "a", "g", "e", " ", "a", " ", "b", "e", "g", "i", "n", "n", "e", "r", " ", "w", "o", "u", "l", "d", " ", "u", "n", "d", "e", "r", "s", "t", "a", "n", "d", ".">>>>,
     <<<<"b", "r", "i", "e", "f">>,
       <<"B", "e", " ", "a", "s", " ", "b", "r", "i", "e", "f", " ", "a", "s", " ", "p", "o", "s", "s", "i", "b", "l", "e", ".">>>>,
     <<<<"d", "e", "t", "a", "i", "l", "e", "d">>,
       <<"B", "e", " ", "t", "h", "o", "r", "o", "u", "g", "h", " ", "a", "n", "d", " ", "d", "e", "t", "a", "i", "l", "e", "d", ".">>>>}

\* lines 270-282
voice_parts(tone) ==
    IF tone = None \/ tone[1] = <<>> THEN <<>>
    ELSE IF HasKey(voice_instructions, tone[1]) THEN <<Lookup(voice_instructions, tone[1])>>
    ELSE <<<<"T", "o", "n", "e", ":", " ">> \o tone[1] \o <<".">>>>

\* lines 285-286: f"{key}: {value}" for each keyword argument, in order
context_parts(context) ==
    [k \in 1..Len(context) |-> context[k][1] \o <<":", " ">> \o context[k][2]]

PARAGRAPH == <<NEWLINE, NEWLINE>>

\* lines 264-295
full_prompt(query, tone, schema, context) ==
    join(PARAGRAPH,
         voice_parts(tone) \o context_parts(context)
           \o <<query, <<>>, to_prompt_instructions(schema)>>)

TXT_RETRY_SUFFIX ==
    <<NEWLINE, NEWLINE, "I", "M", "P", "O", "R", "T", "A", "N", "T", ":", " ", "R",
      "e", "t", "u", "r", "n", " ", "O", "N", "L", "Y", " ", "v", "a", "l", "i", "d",
      " ", "J", "S", "O", "N", ",", " ", "n", "o", " ", "e", "x", "p", "l", "a", "n",
      "a", "t", "i", "o", "n", "s", ".">>

\* line 306
retry_prompt(first_prompt) == first_prompt \o TXT_RETRY_SUFFIX

\* the mutant: the except clause retries again after the retry
may_retry_again(attempts, raised) == raised.error = "ContractError"

\* lines 301-309: the except clause guards the first parse_response only
may_retry(attempts, raised) == attempts = 1 /\ raised.error = "ContractError"

Questions == {<<"w", "h", "y">>, <<>>}
Voices == {None, Some(<<>>), Some(<<"b", "r", "i", "e", "f">>), Some(<<"z", "a", "p">>)}
Contexts == {<<>>, <<<<<<"k">>, <<"v">>>>>>}

\* what the provider may answer
Responses ==
    {<<"{", QUOTE, "a", QUOTE, ":", "1", ",", QUOTE, "b", QUOTE, ":", QUOTE, "x", "y", QUOTE, "}">>,
     <<"{", QUOTE, "b", QUOTE, ":", QUOTE, "x", "y", QUOTE, ",", QUOTE, "a", QUOTE, ":", "1", ",", QUOTE, "c", QUOTE, ":", "t", "r", "u", "e", "}">>,
     <<"{", QUOTE, "a", QUOTE, ":", "7", "}">>,
     <<"n", "o", "t", " ", "j", "s", "o", "n">>,
     <<"[", "]">>,
     FENCE \o <<"j", "s", "o", "n", NEWLINE, "{", QUOTE, "a", QUOTE, ":", QUOTE, "x", QUOTE, ",", QUOTE, "b", QUOTE, ":", "[", "]", "}", NEWLINE>> \o FENCE}

Call(text) == [prompt |-> text, response |-> None]

\* lines 264-298: the prompt is built and the provider is called with it
Call_ask_async ==
    /\ pc = "input"
    /\ prompt' = full_prompt(question, voice, returns[1], bindings)
    /\ calls' = <<Call(prompt')>>
    /\ pc' = "await_complete"
    /\ UNCHANGED <<toks, cmd, parts, ast, warnings, bindings>>
    /\ UNCHANGED contractVars
    /\ UNCHANGED <<question, voice, returns, commands, index, current_vars, last_result>>
    /\ UNCHANGED objectVars

\* lines 298-309: the provider answers the call under way; the response is
\* parsed and the result is returned, or the call is repeated, or the
\* exception leaves ask_async
Resume_ask_async ==
    /\ pc = "await_complete"
    /\ \E response \in Responses :
          LET Continue(parsed) ==
                  /\ reply' = response
                  /\ outcome' = parsed
                  /\ IF parsed.ok
                     THEN /\ heap' = Append(heap, parsed.value)
                          /\ contract_result' =
                                Some([_data |-> Ref(Len(heap) + 1), _raw |-> response])
                          /\ calls' = [calls EXCEPT ![Len(calls)].response = Some(response)]
                          /\ pc' = "returned"
                     ELSE IF may_retry(Len(calls), parsed)
                     THEN /\ calls' = Append([calls EXCEPT ![Len(calls)].response = Some(response)],
                                             Call(retry_prompt(prompt)))
                          /\ pc' = "await_complete"
                          /\ UNCHANGED <<heap, contract_result>>
                     ELSE /\ calls' = [calls EXCEPT ![Len(calls)].response = Some(response)]
                          /\ pc' = "raised"
                          /\ UNCHANGED <<heap, contract_result>>
          IN  Continue(parse_response(returns[1], response))
    /\ UNCHANGED <<contract, plain, field_type, given>>
    /\ UNCHANGED commandVars
    /\ UNCHANGED <<question, voice, returns, commands, index, current_vars, last_result>>
    /\ UNCHANGED held

\* provider.complete raises: the exception leaves ask_async
Provider_raises ==
    /\ pc = "await_complete"
    /\ outcome' = Raised("ProviderError")
    /\ pc' = "raised"
    /\ UNCHANGED <<contract, reply, plain, field_type, given>>
    /\ UNCHANGED commandVars
    /\ UNCHANGED <<callVars, objectVars>>

InitAsk ==
    /\ toks = <<>>
    /\ cmd = <<>>
    /\ pc = "input"
    /\ parts = <<>>
    /\ ast = NoResult
    /\ warnings = <<>>
    /\ bindings \in Contexts
    /\ prompt = <<>>
    /\ contract = <<>>
    /\ reply = <<>>
    /\ plain = None
    /\ field_type = <<>>
    /\ given = <<>>
    /\ outcome = NoOutcome
    /\ question \in Questions
    /\ voice \in Voices
    /\ returns \in {Some(schema) : schema \in Schemas}
    /\ commands = <<>>
    /\ index = 0
    /\ current_vars = <<>>
    /\ last_result = <<>>
    /\ calls = <<>>
    /\ heap = <<>>
    /\ held = {}
    /\ contract_result = None

NextAsk == Call_ask_async \/ Resume_ask_async \/ Provider_raises
SpecAsk == InitAsk /\ [][NextAsk]_vars

\* what parse_response makes of the response to call k
ParsedResponse(k) == parse_response(returns[1], calls[k].response[1])

Answered(k) == k <= Len(calls) /\ calls[k].response # None

\* C27: ask_async calls the provider once with the full prompt; when
\* parse_response of the first response raises ContractError it calls the
\* provider exactly once more, with the same prompt and the stricter
\* instruction appended, and the result it returns carries the second response
\* as its raw text; a ContractError on the second response reaches the caller;
\* there are never more than two calls, and a first response that satisfies
\* the contract is followed by no second call.
C27_AskRetriesExactlyOnce ==
    /\ Len(calls) <= 2
    /\ pc # "input" => Len(calls) >= 1 /\ calls[1].prompt = prompt
    /\ (Answered(1) /\ ParsedResponse(1).error = "ContractError") =>
          /\ Len(calls) = 2
          /\ calls[2].prompt = prompt \o TXT_RETRY_SUFFIX
    /\ (Answered(1) /\ ParsedResponse(1).ok) =>
          /\ Len(calls) = 1
          /\ pc = "returned"
          /\ contract_result[1]._raw = calls[1].response[1]
    /\ (Answered(2) /\ ParsedResponse(2).ok) =>
          /\ pc = "returned"
          /\ contract_result[1]._raw = calls[2].response[1]
          /\ heap[contract_result[1]._data.n] = ParsedResponse(2).value
    /\ (Answered(2) /\ ~ParsedResponse(2).ok) =>
          /\ pc = "raised"
          /\ outcome = ParsedResponse(2)
          /\ contract_result = None
    /\ pc = "returned" => Answered(Len(calls))

\* the first response broke the contract, the second, another text, satisfied
\* it and is the raw text of the result
C27_Witness ==
    /\ pc = "returned"
    /\ Len(calls) = 2
    /\ ParsedResponse(1).error = "ContractError"
    /\ calls[2].response # calls[1].response
    /\ contract_result[1]._raw = calls[2].response[1]

\* a second ContractError reached the caller
C27_WitnessRaised ==
    /\ pc = "raised"
    /\ Len(calls) = 2
    /\ Answered(2)
    /\ outcome.error = "ContractError"

(***************************************************************************)
(* AILANG.chain_async, core.py lines 339-367.  The coroutine runs from one *)
(* await of provider.complete to the next.                                 *)
(***************************************************************************)
VAR_INPUT == <<"i", "n", "p", "u", "t">>
VAR_PREVIOUS == <<"p", "r", "e", "v", "i", "o", "u", "s">>

\* variables[name] = value on a dict: a key that exists keeps its place
SetVar(variables, name, value) ==
    IF \E k \in 1..Len(variables) : variables[k][1] = name
    THEN [k \in 1..Len(variables) |->
             IF variables[k][1] = name THEN <<name, value>> ELSE variables[k]]
    ELSE Append(variables, <<name, value>>)

\* lines 351-353
next_vars(i, variables, result) ==
    IF i > 0 THEN SetVar(SetVar(variables, VAR_INPUT, result), VAR_PREVIOUS, result)
    ELSE variables

\* line 358: i == len(commands) - 1 and returns
adds_contract(i, count, schema) == i = count - 1 /\ schema # None /\ schema[1] # <<>>

\* lines 355-360: the prompt of a command that parsed
command_prompt(node, variables, i, count, schema) ==
    IF adds_contract(i, count, schema)
    THEN _transpile_ast(node, variables) \o PARAGRAPH \o to_prompt_instructions(schema[1])
    ELSE _transpile_ast(node, variables)

MaxCommands == 3

ChainCommands ==
    {<<"w", "r", "i", "t", "e", " ", "{", "i", "n", "p", "u", "t", "}">>,
     <<"f", "i", "x", " ", "{", "p", "r", "e", "v", "i", "o", "u", "s", "}", "{", "a", "}", " ", ">", " ", "s", "u", "m">>,
     <<"!">>}

ChainVariables ==
    {<<>>,
     <<<<<<"a">>, <<"x">>>>>>,
     <<<<VAR_PREVIOUS, <<"P">>>>, <<VAR_INPUT, <<"I">>>>>>}

ChainReturns == {None, Some(<<>>), Some(<<<<NAME_A, int_(Some(0), Some(5))>>>>)}

ChainResponses ==
    {<<"{", QUOTE, "a", QUOTE, ":", "1", "}">>,
     <<"{", "p", "r", "e", "v", "i", "o", "u", "s", "}">>,
     <<"{", QUOTE, "a", QUOTE, ":", "7", "}">>}

\* the caller passes one more command
AddCommand ==
    /\ pc = "input"
    /\ Len(commands) < MaxCommands
    /\ \E command \in ChainCommands : commands' = Append(commands, command)
    /\ UNCHANGED <<question, voice, returns, index, current_vars, last_result, calls>>
    /\ UNCHANGED <<pc, contractVars, commandVars, objectVars>>

\* the loop from the head of iteration i to its await, or to the end of
\* chain_async (lines 350-367)
RunLoop(i, variables, result, made) ==
    /\ last_result' = result
    /\ UNCHANGED <<heap, held, contract_result, reply>>
    /\ IF i >= Len(commands)
       THEN /\ outcome' = Returned(PyStr(result))
            /\ pc' = "returned"
            /\ current_vars' = variables
            /\ calls' = made
            /\ UNCHANGED <<index, prompt>>
       ELSE LET Render(node, bound) ==
                    /\ index' = i
                    /\ current_vars' = bound
                    /\ IF IsError(node)
                       THEN /\ outcome' = Raised("ParseError")
                            /\ pc' = "raised"
                            /\ calls' = made
                            /\ UNCHANGED prompt
                       ELSE LET Send(text) ==
                                    /\ prompt' = text
                                    /\ calls' = Append(made, Call(text))
                                    /\ pc' = "await_complete"
                                    /\ UNCHANGED outcome
                            IN  Send(command_prompt(node, bound, i, Len(commands), returns))
            IN  Render(parse(commands[i + 1]), next_vars(i, variables, result))

\* lines 347-361: chain_async starts with the caller's variables
Call_chain_async ==
    /\ pc = "input"
    /\ RunLoop(0, bindings, <<>>, <<>>)
    /\ UNCHANGED <<contract, plain, field_type, given>>
    /\ UNCHANGED <<toks, cmd, parts, ast, warnings, bindings>>
    /\ UNCHANGED <<question, voice, returns, commands>>

\* lines 361-367: the provider answers the call under way
Resume_chain_async ==
    /\ pc = "await_complete"
    /\ \E response \in ChainResponses :
          LET made == [calls EXCEPT ![Len(calls)].response = Some(response)] IN
          IF adds_contract(index, Len(commands), returns)
          THEN LET Finish(parsed) ==
                       /\ reply' = response
                       /\ outcome' = parsed
                       /\ calls' = made
                       /\ IF parsed.ok
                          THEN /\ heap' = Append(heap, parsed.value)
                               /\ contract_result' =
                                     Some([_data |-> Ref(Len(heap) + 1), _raw |-> response])
                               /\ pc' = "returned"
                          ELSE /\ pc' = "raised"
                               /\ UNCHANGED <<heap, contract_result>>
                       /\ UNCHANGED <<index, current_vars, last_result, held, prompt>>
               IN  Finish(parse_response(returns[1], response))
          ELSE RunLoop(index + 1, current_vars, response, made)
    /\ UNCHANGED <<contract, plain, field_type, given>>
    /\ UNCHANGED <<toks, cmd, parts, ast, warnings, bindings>>
    /\ UNCHANGED <<question, voice, returns, commands>>

InitChainCall ==
    /\ toks = <<>>
    /\ cmd = <<>>
    /\ pc = "input"
    /\ parts = <<>>
    /\ ast = NoResult
    /\ warnings = <<>>
    /\ bindings \in ChainVariables
    /\ prompt = <<>>
    /\ contract = <<>>
    /\ reply = <<>>
    /\ plain = None
    /\ field_type = <<>>
    /\ given = <<>>
    /\ outcome = NoOutcome
    /\ question = <<>>
    /\ voice = None
    /\ returns \in ChainReturns
    /\ commands = <<>>
    /\ index = 0
    /\ current_vars = <<>>
    /\ last_result = <<>>
    /\ calls = <<>>
    /\ heap = <<>>
    /\ held = {}
    /\ contract_result = None

NextChainCall == AddCommand \/ Call_chain_async \/ Resume_chain_async \/ Provider_raises
SpecChainCall == InitChainCall /\ [][NextChainCall]_vars

\* the response the provider gave to call k
ResponseTo(k) == calls[k].response[1]

\* every call made so far has been answered
AllAnswered == \A k \in 1..Len(calls) : calls[k].response # None

\* the values a dict of variables binds to a name
ValuesOf(variables, name) ==
    {variables[k][2] : k \in {j \in 1..Len(variables) : variables[j][1] = name}}

\* C29: chain_async makes one provider call per command, in the order given;
\* while the prompt of a command after the first is built, input and previous
\* are both bound to the response to the command before it, whatever the
\* caller supplied under those names; when returns is given, the response to
\* the last command, and no other, is validated against the contract, and a
\* ContractError on it reaches the caller without a retry; a command that
\* fails to parse raises ParseError only after the calls of all commands
\* before it have been made.
C29_ChainCallsOncePerCommand ==
    /\ Len(calls) <= Len(commands)
    /\ pc = "returned" => Len(calls) = Len(commands) /\ AllAnswered
    /\ pc = "await_complete" =>
          /\ Len(calls) = index + 1
          /\ calls[index + 1].prompt = prompt
          /\ LET text == _transpile_ast(parse(commands[index + 1]), current_vars) IN
             IF index = Len(commands) - 1 /\ returns # None
             THEN prompt = text \o PARAGRAPH \o to_prompt_instructions(returns[1])
             ELSE prompt = text
    /\ (pc # "input" /\ index > 0) =>
          /\ ValuesOf(current_vars, VAR_INPUT) = {ResponseTo(index)}
          /\ ValuesOf(current_vars, VAR_PREVIOUS) = {ResponseTo(index)}
          /\ \A k \in 1..Len(bindings) :
                bindings[k][1] \notin {VAR_INPUT, VAR_PREVIOUS}
                   => ValuesOf(current_vars, bindings[k][1]) = {bindings[k][2]}
    /\ (returns # None /\ Len(calls) = Len(commands) /\ Len(calls) > 0 /\ AllAnswered) =>
          LET Settled(parsed) ==
                  IF parsed.ok
                  THEN /\ pc = "returned"
                       /\ contract_result # None
                       /\ contract_result[1]._raw = ResponseTo(Len(calls))
                       /\ heap[contract_result[1]._data.n] = parsed.value
                  ELSE /\ pc = "raised"
                       /\ outcome = parsed
          IN  Settled(parse_response(returns[1], ResponseTo(Len(calls))))
    /\ (pc = "raised" /\ outcome.error = "ContractError") =>
          Len(calls) = Len(commands) /\ AllAnswered
    /\ (pc = "raised" /\ outcome.error = "ParseError") =>
          /\ Len(calls) = index
          /\ AllAnswered
          /\ IsError(parse(commands[index + 1]))
====
